---- MODULE Spec2Model ----
(***************************************************************************)
(* ChromaType Studio: the useDesignSystem hook (palette, typography,       *)
(* colour scales, persistence, share links) and the pure colour functions  *)
(* it is built on, as a state machine.                                     *)
(*                                                                         *)
(* Representation.                                                         *)
(*  - A hex colour string is the sequence of its hex digits (0..15)        *)
(*    without the leading '#': "#FAFAF9" is <<15,10,15,10,15,9>>, "" is    *)
(*    << >>.  Letter case is not represented.                              *)
(*  - Entry ids are the integers whose decimal text the code uses:         *)
(*    String(i + 1) and Date.now().toString().                             *)
(*  - Real numbers that the code multiplies and divides (the type scale)   *)
(*    are exact fractions <<n, d>> in lowest terms.                        *)
(*  - A JSON text is [text |-> "json", value |-> v]; any other text is     *)
(*    [text |-> "raw", value |-> s].  A missing property is Undefined.     *)
(***************************************************************************)
EXTENDS Integers, Sequences, FiniteSets, TLC

(***************************************************************************)
(* Bounds of the model                                                     *)
(***************************************************************************)
\* user operations performed after the mount has settled
MaxOps == 2
\* entries a palette may grow to through addColor
MaxColors == 8
\* milliseconds Date.now() may advance during a run
MaxClock == 2

Undefined == "undefined"
Null == "null"

(***************************************************************************)
(* Arithmetic helpers                                                      *)
(***************************************************************************)
Min(a, b) == IF a <= b THEN a ELSE b
Max(a, b) == IF a >= b THEN a ELSE b
Abs(a) == IF a < 0 THEN -a ELSE a

\* Math.round of the fraction n/d (d > 0): the nearest integer, halves up
RoundDiv(n, d) == (2 * n + d) \div (2 * d)

\* the JavaScript remainder a % b (b > 0): it has the sign of a
JsMod(a, b) == IF a >= 0 THEN a % b ELSE -((-a) % b)

RECURSIVE Gcd(_, _)
Gcd(a, b) == IF b = 0 THEN a ELSE Gcd(b, a % b)

\* the fraction n/d (d # 0) in lowest terms with a positive denominator
Frac(n, d) ==
  LET g == Gcd(Abs(n), Abs(d))
      sg == IF d < 0 THEN -1 ELSE 1
  IN  <<sg * (n \div g), sg * (d \div g)>>

FracOfInt(n) == <<n, 1>>
FracMul(x, y) ==
  LET a == Frac(x[1], y[2])
      b == Frac(y[1], x[2])
  IN  <<a[1] * b[1], a[2] * b[2]>>
FracDiv(x, y) == FracMul(x, Frac(y[2], y[1]))

\* x < y for fractions with positive denominators, without cross-multiplying
\* (the integers of the checker are 32 bits wide)
RECURSIVE FracLess(_, _)
FracLess(x, y) ==
  LET qx == x[1] \div x[2]
      qy == y[1] \div y[2]
      rx == x[1] % x[2]
      ry == y[1] % y[2]
  IN  IF qx # qy THEN qx < qy
      ELSE IF ry = 0 THEN FALSE
      ELSE IF rx = 0 THEN TRUE
      ELSE FracLess(<<y[2], ry>>, <<x[2], rx>>)

\* the one element of a set of one element: {F(x) : x \in {e}} computes e
\* once for all its uses in F
Once(S) == CHOOSE x \in S : TRUE

\* Math.pow(x, k) for an integer k >= 0
RECURSIVE FracPow(_, _)
FracPow(x, k) == IF k = 0 THEN <<1, 1>> ELSE FracMul(x, FracPow(x, k - 1))

(***************************************************************************)
(* chroma-js: parsing, HSL conversion, WCAG luminance and contrast         *)
(***************************************************************************)
HexDigits == 0..15

\* chroma(hex): a string of three or six hex digits is a colour; anything
\* else makes chroma throw
IsColorString(hex) == Len(hex) \in {3, 6}

\* chroma(hex).rgb()
HexToRgb(hex) ==
  IF Len(hex) = 6
    THEN <<16 * hex[1] + hex[2], 16 * hex[3] + hex[4], 16 * hex[5] + hex[6]>>
    ELSE <<17 * hex[1], 17 * hex[2], 17 * hex[3]>>

\* chroma(rgb).hex()
RgbToHex(rgb) ==
  <<rgb[1] \div 16, rgb[1] % 16, rgb[2] \div 16, rgb[2] % 16,
    rgb[3] \div 16, rgb[3] % 16>>

\* chroma(rgb).hsl() with the rounding of hexToHsl: h in degrees, s and l
\* in percent; a grey has no hue (NaN), which hexToHsl turns into 0
RgbToHsl(rgb) ==
  LET r == rgb[1]
      g == rgb[2]
      b == rgb[3]
      mx == Max(r, Max(g, b))
      mn == Min(r, Min(g, b))
      dl == mx - mn
      sd == IF mx + mn < 255 THEN mx + mn ELSE 510 - mx - mn
      hn == IF r = mx THEN 60 * (g - b)
            ELSE IF g = mx THEN 120 * dl + 60 * (b - r)
            ELSE 240 * dl + 60 * (r - g)
      hp == IF hn < 0 THEN hn + 360 * dl ELSE hn
  IN  IF dl = 0
        THEN [h |-> 0, s |-> 0, l |-> RoundDiv(100 * (mx + mn), 510)]
        ELSE [h |-> RoundDiv(hp, dl),
              s |-> RoundDiv(100 * dl, sd),
              l |-> RoundDiv(100 * (mx + mn), 510)]

\* function hexToHsl(hex)
hexToHsl(hex) ==
  IF IsColorString(hex) THEN RgbToHsl(HexToRgb(hex))
  ELSE [h |-> 0, s |-> 0, l |-> 50]

\* one channel of chroma's hsl2rgb; t3 is the channel's position on the
\* hue circle in degrees, t1 and t2 are scaled by 10000
HslChannel(t1, t2, t3) ==
  LET p == IF t3 < 0 THEN t3 + 360 ELSE IF t3 > 360 THEN t3 - 360 ELSE t3
      c60 == IF p < 60 THEN 60 * t1 + (t2 - t1) * p
             ELSE IF p < 180 THEN 60 * t2
             ELSE IF p < 240 THEN 60 * t1 + (t2 - t1) * (240 - p)
             ELSE 60 * t1
  IN  RoundDiv(255 * c60, 600000)

\* chroma.hsl(h, s / 100, l / 100).rgb()
HslToRgb(h, s, l) ==
  IF s = 0
    THEN LET v == RoundDiv(255 * l, 100) IN <<v, v, v>>
    ELSE LET t2 == IF l < 50 THEN l * (100 + s) ELSE 100 * l + 100 * s - l * s
             t1 == 200 * l - t2
         IN  <<HslChannel(t1, t2, h + 120), HslChannel(t1, t2, h),
               HslChannel(t1, t2, h - 120)>>

\* function hslToHex(h, s, l)
hslToHex(h, s, l) == RgbToHex(HslToRgb(h, s, l))

\* WCAG 2.x relative luminance of one sRGB channel value 0..255, scaled by
\* 100000: c/255/12.92 below 0.03928, ((c/255 + 0.055)/1.055)^2.4 above
ChannelLuminance ==
    <<
       0, 30, 61, 91, 121, 152, 182, 212, 243, 273, 304, 335, 368, 402, 439, 478,
       518, 561, 605, 651, 700, 750, 802, 857, 913, 972, 1033, 1096, 1161, 1229, 1298, 1370,
       1444, 1521, 1600, 1681, 1764, 1850, 1938, 2029, 2122, 2217, 2315, 2416, 2519, 2624, 2732, 2843,
       2956, 3071, 3190, 3310, 3434, 3560, 3689, 3820, 3955, 4092, 4231, 4374, 4519, 4667, 4817, 4971,
       5127, 5286, 5448, 5613, 5781, 5951, 6125, 6301, 6480, 6663, 6848, 7036, 7227, 7421, 7619, 7819,
       8022, 8228, 8438, 8650, 8866, 9084, 9306, 9531, 9759, 9990, 10224, 10462, 10702, 10946, 11193, 11444,
       11697, 11954, 12214, 12477, 12744, 13014, 13287, 13563, 13843, 14126, 14413, 14703, 14996, 15293, 15593, 15896,
       16203, 16513, 16827, 17144, 17465, 17789, 18116, 18447, 18782, 19120, 19462, 19807, 20156, 20508, 20864, 21223,
       21586, 21953, 22323, 22697, 23074, 23455, 23840, 24228, 24620, 25016, 25415, 25818, 26225, 26636, 27050, 27468,
       27889, 28315, 28744, 29177, 29614, 30054, 30499, 30947, 31399, 31855, 32314, 32778, 33245, 33716, 34191, 34670,
       35153, 35640, 36131, 36625, 37124, 37626, 38133, 38643, 39157, 39676, 40198, 40724, 41254, 41789, 42327, 42869,
       43415, 43966, 44520, 45079, 45641, 46208, 46778, 47353, 47932, 48515, 49102, 49693, 50289, 50888, 51492, 52100,
       52712, 53328, 53948, 54572, 55201, 55834, 56471, 57112, 57758, 58408, 59062, 59720, 60383, 61050, 61721, 62396,
       63076, 63760, 64448, 65141, 65837, 66539, 67244, 67954, 68669, 69387, 70110, 70838, 71569, 72306, 73046, 73791,
       74540, 75294, 76052, 76815, 77582, 78354, 79130, 79910, 80695, 81485, 82279, 83077, 83880, 84687, 85499, 86316,
       87137, 87962, 88792, 89627, 90466, 91310, 92158, 93011, 93869, 94731, 95597, 96469, 97345, 98225, 99110, 100000
    >>

\* chroma(hex).luminance(), scaled by 100000
Luminance(hex) ==
  LET rgb == HexToRgb(hex)
  IN  (2126 * ChannelLuminance[rgb[1] + 1] + 7152 * ChannelLuminance[rgb[2] + 1]
       + 722 * ChannelLuminance[rgb[3] + 1]) \div 10000

\* export function calculateContrast(hex1, hex2): the WCAG contrast ratio in
\* thousandths, rounded down; 1 (1000) when chroma rejects a string
calculateContrast(hex1, hex2) ==
  IF ~(IsColorString(hex1) /\ IsColorString(hex2)) THEN 1000
  ELSE LET l1 == Luminance(hex1)
           l2 == Luminance(hex2)
       IN  IF l1 > l2 THEN ((l1 + 5000) * 1000) \div (l2 + 5000)
           ELSE ((l2 + 5000) * 1000) \div (l1 + 5000)

(***************************************************************************)
(* useColorScales.ts: colour scales and harmonies                          *)
(***************************************************************************)
SHADE_STEPS == <<50, 100, 200, 300, 400, 500, 600, 700, 800, 900, 950>>

\* the lightness generateScale gives a shade step
ShadeLightness(step) ==
  IF step = 50 THEN 97 ELSE IF step = 950 THEN 5 ELSE 100 - (step \div 10)

\* function generateScale(hue, saturation, name); the hex of a shade is the
\* HSLuv library's conversion of (hue, saturation, lightness) and is kept as
\* that triple
generateScale(hue, saturation, name) ==
  [name |-> name,
   baseHue |-> hue,
   saturation |-> saturation,
   shades |-> [i \in 1..Len(SHADE_STEPS) |->
                 [step |-> SHADE_STEPS[i],
                  lightness |-> ShadeLightness(SHADE_STEPS[i]),
                  hex |-> <<hue, saturation, ShadeLightness(SHADE_STEPS[i])>>]]]

getComplementaryHue(hue) == JsMod(hue + 180, 360)

\* getAnalogousHues without the "+ 360" that keeps the second hue positive
getAnalogousHuesNoWrap(hue, spacing) ==
  <<JsMod(hue + spacing, 360), JsMod(hue - spacing, 360)>>

getAnalogousHues(hue, spacing) ==
  <<JsMod(hue + spacing, 360), JsMod(hue - spacing + 360, 360)>>

getTriadicHues(hue) == <<JsMod(hue + 120, 360), JsMod(hue + 240, 360)>>

getSplitComplementaryHues(hue, spacing) ==
  LET complement == getComplementaryHue(hue)
  IN  <<JsMod(complement + spacing, 360), JsMod(complement - spacing + 360, 360)>>

HarmonyTypes == {"complementary", "analogous", "triadic", "split-complementary"}

\* export function generateHarmony(config)
generateHarmony(config) ==
  LET primary == <<generateScale(config.baseHue, config.saturation, "primary")>>
      rest ==
        CASE config.type = "complementary" ->
               <<generateScale(getComplementaryHue(config.baseHue),
                               config.saturation, "complementary")>>
          [] config.type = "analogous" ->
               LET hues == getAnalogousHues(config.baseHue, config.spacing)
               IN  <<generateScale(hues[1], config.saturation, "analogous-1"),
                     generateScale(hues[2], config.saturation, "analogous-2")>>
          [] config.type = "triadic" ->
               LET hues == getTriadicHues(config.baseHue)
               IN  <<generateScale(hues[1], config.saturation, "triadic-1"),
                     generateScale(hues[2], config.saturation, "triadic-2")>>
          [] config.type = "split-complementary" ->
               LET hues == getSplitComplementaryHues(config.baseHue, config.spacing)
               IN  <<generateScale(hues[1], config.saturation, "split-1"),
                     generateScale(hues[2], config.saturation, "split-2")>>
          [] OTHER -> << >>
  IN  [config |-> config, scales |-> primary \o rest]

\* export function generateFullColorSystem(config)
generateFullColorSystem(config) ==
  [brand |-> generateScale(config.brandHue, config.brandSaturation, "brand"),
   accent |-> generateScale(config.accentHue, config.accentSaturation, "accent"),
   neutral |-> generateScale(0, 5, "neutral"),
   error |-> generateScale(12, 85, "error"),
   warning |-> generateScale(45, 90, "warning"),
   success |-> generateScale(145, 75, "success"),
   info |-> generateScale(215, 80, "info")]

(***************************************************************************)
(* useDesignSystem.ts: constants and pure functions                        *)
(***************************************************************************)
ColorRoles ==
  {"background", "surface", "text", "textMuted", "primary", "secondary", "accent"}

\* SCALE_RATIOS as fractions: Major Second 1.125, Minor Third 1.2, Major
\* Third 1.25, Perfect Fifth 1.5.  (The presets 1.067, 1.333, 1.414 and 1.618
\* have sixth powers beyond 32-bit fractions and are left out.)
SCALE_RATIOS == {<<9, 8>>, <<6, 5>>, <<5, 4>>, <<3, 2>>}

\* generateTypographySteps with "baseSize / ratio * ratio" for the xs step
generateTypographyStepsNoParens(baseSize, ratio) ==
  LET b == FracOfInt(baseSize)
  IN  <<[name |-> "xs", size |-> FracMul(FracDiv(b, ratio), ratio), lineHeight |-> 150],
        [name |-> "sm", size |-> FracDiv(b, ratio), lineHeight |-> 150],
        [name |-> "base", size |-> b, lineHeight |-> 160],
        [name |-> "lg", size |-> FracMul(b, ratio), lineHeight |-> 150],
        [name |-> "xl", size |-> FracMul(FracMul(b, ratio), ratio), lineHeight |-> 140],
        [name |-> "2xl", size |-> FracMul(b, FracPow(ratio, 3)), lineHeight |-> 130],
        [name |-> "3xl", size |-> FracMul(b, FracPow(ratio, 4)), lineHeight |-> 120],
        [name |-> "4xl", size |-> FracMul(b, FracPow(ratio, 5)), lineHeight |-> 110],
        [name |-> "5xl", size |-> FracMul(b, FracPow(ratio, 6)), lineHeight |-> 105]>>

\* function generateTypographySteps(baseSize, ratio): ratio is a fraction,
\* sizes are fractions, line heights are in hundredths
generateTypographySteps(baseSize, ratio) ==
  LET b == FracOfInt(baseSize)
  IN  <<[name |-> "xs", size |-> FracDiv(b, FracMul(ratio, ratio)), lineHeight |-> 150],
        [name |-> "sm", size |-> FracDiv(b, ratio), lineHeight |-> 150],
        [name |-> "base", size |-> b, lineHeight |-> 160],
        [name |-> "lg", size |-> FracMul(b, ratio), lineHeight |-> 150],
        [name |-> "xl", size |-> FracMul(FracMul(b, ratio), ratio), lineHeight |-> 140],
        [name |-> "2xl", size |-> FracMul(b, FracPow(ratio, 3)), lineHeight |-> 130],
        [name |-> "3xl", size |-> FracMul(b, FracPow(ratio, 4)), lineHeight |-> 120],
        [name |-> "4xl", size |-> FracMul(b, FracPow(ratio, 5)), lineHeight |-> 110],
        [name |-> "5xl", size |-> FracMul(b, FracPow(ratio, 6)), lineHeight |-> 105]>>

Entry(id, role, name, hex, h, s, l) ==
  [id |-> id, role |-> role, name |-> name, hex |-> hex,
   hsl |-> [h |-> h, s |-> s, l |-> l]]

\* COLOR_PRESETS: the presets "default" (Studio Default) and "midnight"
\* (Midnight Mode); preset colours carry no id (0 stands for the absent id)
COLOR_PRESETS ==
  [default |->
     <<Entry(0, "background", "Background", <<15, 10, 15, 10, 15, 9>>, 40, 20, 98),
       Entry(0, "surface", "Surface", <<15, 15, 15, 15, 15, 15>>, 0, 0, 100),
       Entry(0, "text", "Text", <<1, 10, 1, 10, 2, 14>>, 240, 28, 14),
       Entry(0, "textMuted", "Text Muted", <<6, 11, 7, 2, 8, 0>>, 220, 9, 46),
       Entry(0, "primary", "Primary", <<5, 11, 4, 12, 13, 11>>, 250, 60, 45),
       Entry(0, "secondary", "Secondary", <<15, 9, 7, 3, 1, 6>>, 25, 95, 53),
       Entry(0, "accent", "Accent", <<1, 4, 11, 8, 10, 6>>, 172, 80, 40)>>,
   midnight |->
     <<Entry(0, "background", "Background", <<0, 15, 1, 7, 2, 10>>, 222, 47, 11),
       Entry(0, "surface", "Surface", <<1, 14, 2, 9, 3, 11>>, 217, 33, 17),
       Entry(0, "text", "Text", <<15, 1, 15, 5, 15, 9>>, 210, 40, 96),
       Entry(0, "textMuted", "Text Muted", <<9, 4, 10, 3, 11, 8>>, 215, 20, 65),
       Entry(0, "primary", "Primary", <<8, 1, 8, 12, 15, 8>>, 239, 84, 67),
       Entry(0, "secondary", "Secondary", <<15, 4, 7, 2, 11, 6>>, 330, 86, 70),
       Entry(0, "accent", "Accent", <<3, 4, 13, 3, 9, 9>>, 160, 64, 52)>>]

\* preset.colors.map((c, i) => ({ ...c, id: String(base + i) }))
WithIds(preset, base) ==
  [i \in 1..Len(preset) |-> [preset[i] EXCEPT !.id = base + i - 1]]

\* const DEFAULT_COLORS = COLOR_PRESETS[0].colors.map((c, i) => ({ ...c, id: String(i + 1) }))
DEFAULT_COLORS == WithIds(COLOR_PRESETS.default, 1)

\* DEFAULT_TYPOGRAPHY with the steps the hook's state initialiser generates
DEFAULT_TYPOGRAPHY ==
  [baseSize |-> 16, scaleRatio |-> <<5, 4>>, headingFont |-> "Space Grotesk",
   bodyFont |-> "Inter", steps |-> generateTypographySteps(16, <<5, 4>>)]

DEFAULT_SCALES_CONFIG ==
  [type |-> "complementary", baseHue |-> 250, saturation |-> 80, spacing |-> 30]

\* a ContrastResult whose aaaLarge takes the AAA threshold of normal text
ContrastResultAaaLargeAt7(fg, bg) ==
  LET ratio == calculateContrast(fg.hex, bg.hex)
  IN  [color1 |-> fg, color2 |-> bg, ratio |-> ratio,
       aa |-> ratio >= 4500, aaLarge |-> ratio >= 3000,
       aaa |-> ratio >= 7000, aaaLarge |-> ratio >= 7000]

\* the ContrastResult of one (foreground, background) pair
ContrastResult(fg, bg) ==
  LET ratio == calculateContrast(fg.hex, bg.hex)
  IN  [color1 |-> fg, color2 |-> bg, ratio |-> ratio,
       aa |-> ratio >= 4500, aaLarge |-> ratio >= 3000,
       aaa |-> ratio >= 7000, aaaLarge |-> ratio >= 4500]

\* colors.filter(c => roles.includes(c.role))
RECURSIVE FilterRoles(_, _)
FilterRoles(cs, roles) ==
  IF cs = << >> THEN << >>
  ELSE IF Head(cs).role \in roles
         THEN <<Head(cs)>> \o FilterRoles(Tail(cs), roles)
         ELSE FilterRoles(Tail(cs), roles)

\* for (const fg of fgs) for (const bg of bgs) results.push(...)
RECURSIVE ContrastPairs(_, _)
ContrastPairs(fgs, bgs) ==
  IF fgs = << >> THEN << >>
  ELSE [j \in 1..Len(bgs) |-> ContrastResult(Head(fgs), bgs[j])]
       \o ContrastPairs(Tail(fgs), bgs)

\* getContrastResults() of a hook whose light palette is cs
getContrastResults(cs) ==
  LET textColors == FilterRoles(cs, {"text", "textMuted"})
      bgColors == FilterRoles(cs, {"background", "surface"})
      brandColors == FilterRoles(cs, {"primary", "secondary", "accent"})
  IN  ContrastPairs(textColors, bgColors) \o ContrastPairs(brandColors, bgColors)

\* isPaletteDark with a background of lightness 30 counted as dark
isPaletteDarkAt30(cs) ==
  LET bgs == FilterRoles(cs, {"background"})
  IN  IF Len(bgs) > 0 THEN bgs[1].hsl.l <= 30 ELSE FALSE

\* function isPaletteDark(colors): the first background of the palette has
\* a lightness below 30
isPaletteDark(cs) ==
  LET bgs == FilterRoles(cs, {"background"})
  IN  IF Len(bgs) > 0 THEN bgs[1].hsl.l < 30 ELSE FALSE

\* generateDarkPalette, light to dark: the lightness of a brand colour
BrandLightnessOnDark(l) ==
  IF l < 40 THEN l + 25
  ELSE IF l > 70 THEN l - 15
  ELSE Min(65, l + 10)

\* the switch of generateDarkPalette: newS and newL for a role and an hsl
DarkSwitch(role, hsl, alreadyDark) ==
  IF alreadyDark
    THEN CASE role = "background" -> [s |-> Min(hsl.s, 5), l |-> 98]
           [] role = "surface" -> [s |-> 0, l |-> 100]
           [] role = "text" -> [s |-> Min(hsl.s, 10), l |-> 10]
           [] role = "textMuted" -> [s |-> Min(hsl.s, 10), l |-> 40]
           [] role \in {"primary", "secondary", "accent"} ->
                [s |-> Min(hsl.s, 85), l |-> Max(35, Min(55, hsl.l))]
           [] OTHER -> [s |-> hsl.s, l |-> 100 - hsl.l]
    ELSE CASE role = "background" -> [s |-> Min(hsl.s, 15), l |-> 8]
           [] role = "surface" -> [s |-> Min(hsl.s, 20), l |-> 12]
           [] role = "text" -> [s |-> Min(hsl.s, 5), l |-> 95]
           [] role = "textMuted" -> [s |-> Min(hsl.s, 10), l |-> 65]
           [] role \in {"primary", "secondary", "accent"} ->
                [s |-> Min(hsl.s, 80), l |-> BrandLightnessOnDark(hsl.l)]
           [] OTHER -> [s |-> hsl.s, l |-> 100 - hsl.l]

\* the body of the map with the hex made from the saturation of the input
DarkEntryOldSaturation(color, alreadyDark) ==
  LET new == DarkSwitch(color.role, color.hsl, alreadyDark)
  IN  [color EXCEPT !.hex = hslToHex(color.hsl.h, color.hsl.s, new.l),
                    !.hsl = [h |-> color.hsl.h, s |-> new.s, l |-> new.l]]

\* the body of lightColors.map(color => ...) in generateDarkPalette
DarkEntry(color, alreadyDark) ==
  LET new == DarkSwitch(color.role, color.hsl, alreadyDark)
  IN  [color EXCEPT !.hex = hslToHex(color.hsl.h, new.s, new.l),
                    !.hsl = [h |-> color.hsl.h, s |-> new.s, l |-> new.l]]

\* function generateDarkPalette(lightColors)
generateDarkPalette(cs) ==
  [i \in 1..Len(cs) |-> DarkEntry(cs[i], isPaletteDark(cs))]

(***************************************************************************)
(* Colour blindness: the simulation of dichromatic vision and the analysis *)
(* of a palette.  Linear channel values and cone responses are integers in *)
(* units of 10^-7, matrix entries in units of 10^-8.                       *)
(***************************************************************************)
VisionTypes == {"normal", "deuteranopia", "protanopia", "tritanopia"}
\* VISION_TYPES.filter(v => v.value !== 'normal')
DeficiencyTypes == VisionTypes \ {"normal"}

\* srgbToLinear(value) for value = 0..255
SrgbToLinearTable ==
  <<
     0, 3035, 6071, 9106, 12141, 15176, 18212, 21247, 24282, 27317, 30353,
     33465, 36765, 40247, 43914, 47770, 51815, 56054, 60488, 65121, 69954,
     74990, 80232, 85681, 91341, 97212, 103298, 109601, 116122, 122865,
     129830, 137021, 144438, 152085, 159963, 168074, 176420, 185002, 193824,
     202886, 212190, 221739, 231534, 241576, 251869, 262412, 273209, 284260,
     295568, 307134, 318960, 331048, 343398, 356013, 368895, 382044, 395462,
     409152, 423114, 437350, 451862, 466651, 481718, 497066, 512695, 528606,
     544803, 561285, 578054, 595112, 612461, 630100, 648033, 666259, 684782,
     703601, 722719, 742136, 761854, 781874, 802198, 822827, 843762, 865005,
     886556, 908417, 930590, 953075, 975873, 998987, 1022417, 1046165,
     1070231, 1094617, 1119324, 1144354, 1169707, 1195384, 1221388, 1247718,
     1274377, 1301365, 1328683, 1356333, 1384316, 1412633, 1441285, 1470273,
     1499598, 1529262, 1559265, 1589608, 1620294, 1651322, 1682694, 1714411,
     1746474, 1778884, 1811642, 1844750, 1878208, 1912017, 1946178, 1980693,
     2015563, 2050787, 2086369, 2122308, 2158605, 2195262, 2232280, 2269659,
     2307400, 2345506, 2383976, 2422811, 2462013, 2501583, 2541521, 2581829,
     2622507, 2663556, 2704978, 2746773, 2788943, 2831487, 2874408, 2917706,
     2961383, 3005438, 3049873, 3094689, 3139887, 3185468, 3231432, 3277781,
     3324515, 3371636, 3419144, 3467041, 3515326, 3564001, 3613068, 3662526,
     3712377, 3762621, 3813260, 3864294, 3915725, 3967552, 4019778, 4072402,
     4125426, 4178851, 4232677, 4286905, 4341536, 4396572, 4452012, 4507858,
     4564110, 4620770, 4677838, 4735315, 4793202, 4851499, 4910208, 4969330,
     5028865, 5088813, 5149177, 5209956, 5271151, 5332764, 5394795, 5457245,
     5520114, 5583404, 5647115, 5711248, 5775804, 5840784, 5906188, 5972018,
     6038273, 6104956, 6172066, 6239604, 6307571, 6375969, 6444797, 6514056,
     6583748, 6653873, 6724432, 6795425, 6866853, 6938718, 7011019, 7083758,
     7156935, 7230551, 7304607, 7379104, 7454042, 7529422, 7605245, 7681511,
     7758222, 7835378, 7912979, 7991027, 8069523, 8148466, 8227858, 8307699,
     8387990, 8468732, 8549926, 8631572, 8713671, 8796224, 8879231, 8962694,
     9046612, 9130987, 9215819, 9301109, 9386857, 9473065, 9559734, 9646862,
     9734453, 9822506, 9911021, 10000000
  >>

\* function srgbToLinear(value)
srgbToLinear(channel) == SrgbToLinearTable[channel + 1]

\* linearToSrgb: entry c is the least linear value that linearToSrgb turns
\* into c or more, for c = 1..255
LinearToSrgbSteps ==
  <<
     1518, 4553, 7589, 10624, 13659, 16694, 19730, 22765, 25800, 28836,
     31884, 35093, 38484, 42058, 45819, 49769, 53911, 58247, 62780, 67513,
     72447, 77586, 82931, 88485, 94250, 100229, 106423, 112835, 119466,
     126320, 133398, 140702, 148234, 155996, 163990, 172218, 180682, 189383,
     198325, 207508, 216934, 226606, 236524, 246692, 257109, 267779, 278703,
     289883, 301320, 313015, 324972, 337190, 349673, 362421, 375436, 388720,
     402274, 416099, 430198, 444572, 459222, 474150, 489357, 504845, 520616,
     536669, 553009, 569634, 586548, 603751, 621244, 639030, 657110, 675484,
     694155, 713123, 732390, 751958, 771827, 791999, 812475, 833257, 854345,
     875742, 897448, 919465, 941794, 964435, 987391, 1010663, 1034252,
     1058159, 1082385, 1106931, 1131799, 1156990, 1182505, 1208346, 1234512,
     1261007, 1287830, 1314983, 1342467, 1370284, 1398433, 1426917, 1455737,
     1484894, 1514388, 1544221, 1574394, 1604909, 1635765, 1666965, 1698510,
     1730400, 1762636, 1795220, 1828153, 1861435, 1895069, 1929054, 1963392,
     1998084, 2033131, 2068534, 2104294, 2140412, 2176889, 2213726, 2250924,
     2288485, 2326408, 2364696, 2403348, 2442367, 2481753, 2521506, 2561629,
     2602122, 2642985, 2684221, 2725829, 2767812, 2810169, 2852901, 2896011,
     2939498, 2983363, 3027608, 3072234, 3117241, 3162630, 3208402, 3254559,
     3301100, 3348028, 3395342, 3443044, 3491135, 3539615, 3588486, 3637748,
     3687403, 3737450, 3787892, 3838728, 3889960, 3941589, 3993616, 4046041,
     4098865, 4152089, 4205714, 4259741, 4314171, 4369004, 4424242, 4479885,
     4535934, 4592390, 4649253, 4706526, 4764208, 4822300, 4880803, 4939718,
     4999046, 5058788, 5118944, 5179515, 5240502, 5301906, 5363728, 5425968,
     5488627, 5551707, 5615207, 5679129, 5743474, 5808242, 5873434, 5939050,
     6005093, 6071562, 6138458, 6205782, 6273534, 6341717, 6410329, 6479373,
     6548849, 6618757, 6689099, 6759874, 6831085, 6902731, 6974814, 7047334,
     7120292, 7193689, 7267525, 7341801, 7416518, 7491677, 7567279, 7643323,
     7719812, 7796745, 7874123, 7951948, 8030220, 8108939, 8188106, 8267722,
     8347789, 8428305, 8509273, 8590693, 8672565, 8754891, 8837671, 8920906,
     9004596, 9088743, 9173346, 9258407, 9343926, 9429904, 9516342, 9603241,
     9690600, 9778422, 9866706, 9955453
  >>

\* function linearToSrgb(value): the result is clamped to 0..255, so it is
\* the number of steps the value has reached
linearToSrgb(linear) ==
  Cardinality({c \in 1..255 : LinearToSrgbSteps[c] <= linear})

\* hexToRgb that reads the three-digit shorthand as chroma does
hexToRgbShorthand(hex) ==
  IF Len(hex) = 6
    THEN <<16 * hex[1] + hex[2], 16 * hex[3] + hex[4], 16 * hex[5] + hex[6]>>
  ELSE IF Len(hex) = 3 THEN <<17 * hex[1], 17 * hex[2], 17 * hex[3]>>
  ELSE <<0, 0, 0>>

\* function hexToRgb(hex) of the simulation: six hex digits, else black
hexToRgb(hex) ==
  IF Len(hex) = 6
    THEN <<16 * hex[1] + hex[2], 16 * hex[3] + hex[4], 16 * hex[5] + hex[6]>>
    ELSE <<0, 0, 0>>

\* function rgbToHex(r, g, b) of the simulation: channels are clamped
rgbToHex(r, g, b) ==
  LET Digits(x) == LET v == Max(0, Min(255, x)) IN <<v \div 16, v % 16>>
  IN  Digits(r) \o Digits(g) \o Digits(b)

\* a value in units of 10^-7 times a matrix entry in units of 10^-8, without
\* a product beyond 32 bits
MulScaled(a, c) ==
  LET ah == a \div 10000
      al == a % 10000
      ch == c \div 10000
      cl == c % 10000
  IN  ah * ch + (ah * cl + al * ch) \div 10000 + (al * cl) \div 100000000

\* function multiplyMatrix(matrix, vector)
multiplyMatrix(matrix, vector) ==
  Once({[i \in 1..3 |-> MulScaled(v[1], matrix[i][1]) + MulScaled(v[2], matrix[i][2])
                        + MulScaled(v[3], matrix[i][3])] : v \in {vector}})

RGB_TO_LMS ==
  <<<<31399022, 63951294, 4649755>>,
    <<15537241, 75789446, 8670142>>,
    <<1775239, 10944209, 87256922>>>>
LMS_TO_RGB ==
  <<<<547221206, -464196010, 16963708>>,
    <<-112524190, 229317094, -16789520>>,
    <<2980165, -19318073, 116364789>>>>
DEUTERANOPIA_MATRIX ==
  <<<<100000000, 0, 0>>, <<49420700, 0, 124827000>>, <<0, 0, 100000000>>>>
PROTANOPIA_MATRIX ==
  <<<<0, 202344000, -252581000>>, <<0, 100000000, 0>>, <<0, 0, 100000000>>>>
TRITANOPIA_MATRIX ==
  <<<<100000000, 0, 0>>, <<0, 100000000, 0>>, <<-39591300, 80110900, 0>>>>

\* the simulation of a deficiency on the channels of an sRGB colour
SimulateRgb(rgb, type) ==
  LET linearRgb == [i \in 1..3 |-> srgbToLinear(rgb[i])]
      lms == multiplyMatrix(RGB_TO_LMS, linearRgb)
      simulatedLms ==
        CASE type = "deuteranopia" -> multiplyMatrix(DEUTERANOPIA_MATRIX, lms)
          [] type = "protanopia" -> multiplyMatrix(PROTANOPIA_MATRIX, lms)
          [] type = "tritanopia" -> multiplyMatrix(TRITANOPIA_MATRIX, lms)
          [] OTHER -> lms
      clamped == Once({[i \in 1..3 |-> Max(0, v[i])] : v \in {simulatedLms}})
      simulatedLinearRgb == multiplyMatrix(LMS_TO_RGB, clamped)
  IN  Once({[i \in 1..3 |-> linearToSrgb(v[i])] : v \in {simulatedLinearRgb}})

\* function simulateColorBlindness(hex, type)
simulateColorBlindness(hex, type) ==
  IF type = "normal" THEN hex
  ELSE Once({rgbToHex(v[1], v[2], v[3]) : v \in {SimulateRgb(hexToRgb(hex), type)}})

\* function colorDifference(hex1, hex2).  The difference d is kept as the
\* weighted sum of squares under its root, 30 dr^2 + 59 dg^2 + 11 db^2 over
\* the channels 0..255, which is d^2 * 65025 / 100
colorDifference(hex1, hex2) ==
  LET rgb1 == hexToRgb(hex1)
      rgb2 == hexToRgb(hex2)
      dr == rgb1[1] - rgb2[1]
      dg == rgb1[2] - rgb2[2]
      db == rgb1[3] - rgb2[3]
  IN  30 * dr * dr + 59 * dg * dg + 11 * db * db

\* difference < threshold, for a threshold >= 0
BelowThreshold(difference, threshold) ==
  100 * difference < 65025 * threshold * threshold

\* function areColorsDistinguishable(hex1, hex2, visionType, threshold)
areColorsDistinguishable(hex1, hex2, visionType, threshold) ==
  LET simulated1 == simulateColorBlindness(hex1, visionType)
      simulated2 == simulateColorBlindness(hex2, visionType)
  IN  ~BelowThreshold(colorDifference(simulated1, simulated2), threshold)

\* the two loops of analyzeColorPalette from the pair (i, j) on; the inner
\* loop starts at j = i + first
RECURSIVE AnalyzeLoop(_, _, _, _, _, _)
AnalyzeLoop(cs, visionType, threshold, first, i, j) ==
  IF i > Len(cs) THEN << >>
  ELSE IF j > Len(cs)
    THEN AnalyzeLoop(cs, visionType, threshold, first, i + 1, i + 1 + first)
  ELSE LET sim1 == simulateColorBlindness(cs[i].hex, visionType)
           sim2 == simulateColorBlindness(cs[j].hex, visionType)
           difference == colorDifference(sim1, sim2)
       IN  (IF BelowThreshold(difference, threshold)
              THEN <<[color1 |-> [name |-> cs[i].name, hex |-> cs[i].hex,
                                  simulated |-> sim1],
                      color2 |-> [name |-> cs[j].name, hex |-> cs[j].hex,
                                  simulated |-> sim2],
                      difference |-> difference]>>
              ELSE << >>)
           \o AnalyzeLoop(cs, visionType, threshold, first, i, j + 1)

\* analyzeColorPalette with the inner loop starting at j = i
analyzeColorPaletteFromI(cs, visionType, threshold) ==
  LET issues == AnalyzeLoop(cs, visionType, threshold, 0, 1, 1)
  IN  [visionType |-> visionType, issues |-> issues, isAccessible |-> Len(issues) = 0]

\* function analyzeColorPalette(colors, visionType, threshold)
analyzeColorPalette(cs, visionType, threshold) ==
  LET issues == AnalyzeLoop(cs, visionType, threshold, 1, 1, 2)
  IN  [visionType |-> visionType, issues |-> issues, isAccessible |-> Len(issues) = 0]

\* colors.map(c => ({ name: c.name, hex: c.hex }))
NamesAndHexes(cs) == [i \in 1..Len(cs) |-> [name |-> cs[i].name, hex |-> cs[i].hex]]

\* allAnalyses of ColorBlindnessPanel: the analysis of the palette for each
\* deficiency, with the default threshold
allAnalyses(cs) ==
  [type \in DeficiencyTypes |-> analyzeColorPalette(NamesAndHexes(cs), type, 5)]

\* hasAnyIssues of ColorBlindnessPanel
hasAnyIssues(cs) == \E type \in DeficiencyTypes : ~allAnalyses(cs)[type].isAccessible

\* the heading of the panel's overall status
OverallStatus(cs) ==
  IF hasAnyIssues(cs) THEN "Potential Issues Detected" ELSE "Palette is Accessible"

(***************************************************************************)
(* urlStateEncoder.ts and the JSON texts kept in localStorage              *)
(***************************************************************************)
\* an optional value: a property that is present, or undefined
Some(v) == <<v>>
None == << >>

\* JSON.stringify(value) and JSON.parse(text); a text that is not JSON makes
\* JSON.parse throw, which IsJson tells
JsonStringify(v) == [text |-> "json", value |-> v]
IsJson(t) == t.text = "json"
JsonParse(t) == t.value

RawText(str) == [text |-> "raw", value |-> str]
EmptyText == RawText("")
IsEmptyText(t) == t.text = "raw" /\ t.value = ""

\* LZString.compressToEncodedURIComponent / decompressFromEncodedURIComponent:
\* decompressing what was not compressed yields no JSON
LzCompress(t) == [text |-> "lz", value |-> t]
LzDecompress(t) == IF t.text = "lz" THEN t.value ELSE EmptyText

\* JavaScript truthiness of an optional array or object: undefined is falsy,
\* every array and object (the empty array too) is truthy
Truthy(opt) == opt # None

\* export function encodeState(state)
encodeState(state) == LzCompress(JsonStringify(state))

\* decodeState whose validation also rejects an empty colors array
decodeStateNonEmpty(encoded) ==
  LET json == LzDecompress(encoded)
  IN  IF IsEmptyText(json) \/ ~IsJson(json) THEN None
      ELSE LET state == JsonParse(json)
           IN  IF ~Truthy(state.colors) \/ Len(state.colors[1]) = 0 THEN None
               ELSE IF ~Truthy(state.typography) THEN None
               ELSE Some(state)

\* export function decodeState(encoded): the state, or None for null
decodeState(encoded) ==
  LET json == LzDecompress(encoded)
  IN  IF IsEmptyText(json) \/ ~IsJson(json) THEN None
      ELSE LET state == JsonParse(json)
           IN  IF ~Truthy(state.colors) THEN None
               ELSE IF ~Truthy(state.typography) THEN None
               ELSE Some(state)

\* export function generateShareUrl(state): the hash part of the URL
generateShareUrl(state) == encodeState(state)

\* export function getStateFromUrl() on a page whose hash (without '#') is hash
getStateFromUrl(hash) == IF IsEmptyText(hash) THEN None ELSE decodeState(hash)

(***************************************************************************)
(* The useDesignSystem hook                                                *)
(***************************************************************************)
VARIABLES
  \* useState
  colors, typography, colorScalesConfig, colorScalesEnabled, fullSystemEnabled,
  loadedFromUrl, colorMode, darkColors, autoSyncDark, visionSimulation,
  \* useRef
  isInitialized,
  \* useMemo
  colorScales, fullColorSystem,
  \* state updates queued by the mount effects for the next render
  queued,
  \* the browser: localStorage["chromaType-designSystem"] (None when absent),
  \* window.location.hash without '#', React StrictMode, Date.now()
  localStorage, urlHash, strictMode, clock,
  \* position in the mount: "load", "save", "load2", "save2", "commit", "ready"
  pc,
  \* history: operations done, operations since the mount, the last operation,
  \* the storage entry and hash the mount started from, whether the load effect
  \* called localStorage.getItem, and the state a share link was made from
  nOps, opsSinceMount, lastOp, mountStorage, mountHash, storageRead, shared,
  \* history: the arguments of the last operation, and the operations done on
  \* the colour mode, the dark palette, the vision simulation and the panel
  lastArgs, nModeOps,
  \* ColorBlindnessPanel: whether it is mounted, and its useState
  panelMounted, selectedVision, simulatePreview,
  \* a pure function called on its own: the call and its result
  arg, ret

hookVars ==
  <<colors, typography, colorScalesConfig, colorScalesEnabled, fullSystemEnabled,
    loadedFromUrl, colorMode, darkColors, autoSyncDark, visionSimulation,
    isInitialized, colorScales, fullColorSystem, queued>>
envVars == <<localStorage, urlHash, strictMode, clock>>
histVars ==
  <<nOps, opsSinceMount, lastOp, mountStorage, mountHash, storageRead, shared,
    lastArgs, nModeOps>>
panelVars == <<panelMounted, selectedVision, simulatePreview>>
fnVars == <<arg, ret>>
vars == <<hookVars, envVars, pc, histVars, panelVars, fnVars>>

\* the object the save effect and getShareUrl build from the state
StateObject(c, t, cfg, ce, fe) ==
  [colors |-> Some(c), typography |-> Some(t), colorScalesConfig |-> Some(cfg),
   colorScalesEnabled |-> Some(ce), fullSystemEnabled |-> Some(fe)]

ShareableState ==
  StateObject(colors, typography, colorScalesConfig, colorScalesEnabled,
              fullSystemEnabled)

\* what an earlier release of the hook saved: colors and typography only
LegacyObject(c, t) ==
  [colors |-> Some(c), typography |-> Some(t), colorScalesConfig |-> None,
   colorScalesEnabled |-> None, fullSystemEnabled |-> None]

NoUpdates ==
  [colors |-> None, typography |-> None, colorScalesConfig |-> None,
   colorScalesEnabled |-> None, fullSystemEnabled |-> None, loadedFromUrl |-> None]

\* const colorScales = useMemo(...) for the given dependencies
ColorScalesMemo(cfg, enabled) ==
  IF ~enabled THEN None ELSE Some(generateHarmony(cfg))

\* const fullColorSystem = useMemo(...) for the given dependencies
FullColorSystemMemo(cfg, enabled) ==
  IF ~enabled THEN None
  ELSE Some(generateFullColorSystem(
              [brandHue |-> cfg.baseHue, brandSaturation |-> cfg.saturation,
               accentHue |-> JsMod(cfg.baseHue + 180, 360),
               accentSaturation |-> cfg.saturation]))

\* a render whose memos list only the switches as dependencies
RenderMemosStale ==
  /\ colorScales' =
       IF colorScalesEnabled' = colorScalesEnabled
         THEN colorScales
         ELSE ColorScalesMemo(colorScalesConfig', colorScalesEnabled')
  /\ fullColorSystem' =
       IF fullSystemEnabled' = fullSystemEnabled
         THEN fullColorSystem
         ELSE FullColorSystemMemo(colorScalesConfig', fullSystemEnabled')

\* a render: each memo is recomputed when one of its dependencies changed
RenderMemos ==
  /\ colorScales' =
       IF <<colorScalesConfig', colorScalesEnabled'>> = <<colorScalesConfig, colorScalesEnabled>>
         THEN colorScales
         ELSE ColorScalesMemo(colorScalesConfig', colorScalesEnabled')
  /\ fullColorSystem' =
       IF <<colorScalesConfig', fullSystemEnabled'>> = <<colorScalesConfig, fullSystemEnabled>>
         THEN fullColorSystem
         ELSE FullColorSystemMemo(colorScalesConfig', fullSystemEnabled')

\* the save effect of the render that follows a state change
SaveEffectWrites ==
  localStorage' = Some(JsonStringify(
    StateObject(colors', typography', colorScalesConfig', colorScalesEnabled',
                fullSystemEnabled')))

\* the setState calls both branches of the load effect make for a loaded object
\* (the steps are regenerated from baseSize and scaleRatio)
LoadedUpdates(obj, fromUrl) ==
  [colors |-> IF Truthy(obj.colors) THEN obj.colors ELSE None,
   typography |->
     IF Truthy(obj.typography)
       THEN Some([obj.typography[1] EXCEPT
                    !.steps = generateTypographySteps(obj.typography[1].baseSize,
                                                      obj.typography[1].scaleRatio)])
       ELSE None,
   colorScalesConfig |->
     IF Truthy(obj.colorScalesConfig) THEN obj.colorScalesConfig ELSE None,
   colorScalesEnabled |-> obj.colorScalesEnabled,
   fullSystemEnabled |-> obj.fullSystemEnabled,
   loadedFromUrl |-> IF fromUrl THEN Some(TRUE) ELSE None]

\* a state an earlier session of the hook left in localStorage: the Midnight
\* Mode preset applied at time 500, a 12 px Perfect Fifth scale, a triadic
\* harmony at hue 0 with both switches on
SessionState ==
  StateObject(WithIds(COLOR_PRESETS.midnight, 500),
              [baseSize |-> 12, scaleRatio |-> <<3, 2>>, headingFont |-> "Inter",
               bodyFont |-> "Roboto", steps |-> generateTypographySteps(12, <<3, 2>>)],
              [type |-> "triadic", baseHue |-> 0, saturation |-> 100, spacing |-> 10],
              TRUE, TRUE)

\* what an earlier release left: a one-colour palette and a 24 px scale
LegacyState ==
  LegacyObject(<<Entry(1, "background", "Background", <<0, 0, 0>>, 0, 0, 0)>>,
               [baseSize |-> 24, scaleRatio |-> <<9, 8>>, headingFont |-> "Lora",
                bodyFont |-> "Lato", steps |-> << >>])

\* localStorage entries a page load may find
StoredEntries ==
  {None, Some(RawText("{not json")), Some(JsonStringify(LegacyState)),
   Some(JsonStringify(SessionState))}

\* URL hashes a page load may find: none, one that does not decode, a link
\* that carries colors and typography only
InitialHashes ==
  {EmptyText, RawText("garbage"), encodeState(LegacyState)}

\* the first render of a freshly mounted hook
FirstRender ==
  /\ colors = DEFAULT_COLORS
  /\ typography = DEFAULT_TYPOGRAPHY
  /\ colorScalesConfig = DEFAULT_SCALES_CONFIG
  /\ colorScalesEnabled = FALSE
  /\ fullSystemEnabled = FALSE
  /\ loadedFromUrl = FALSE
  /\ colorMode = "light"
  /\ darkColors = None
  /\ autoSyncDark = TRUE
  /\ visionSimulation = "normal"
  /\ isInitialized = FALSE
  /\ colorScales = ColorScalesMemo(DEFAULT_SCALES_CONFIG, FALSE)
  /\ fullColorSystem = FullColorSystemMemo(DEFAULT_SCALES_CONFIG, FALSE)
  /\ queued = NoUpdates

NoCall == [fn |-> "none"]

\* an operation called without arguments
NoArgs == [id |-> None, updates |-> None, role |-> None, mode |-> None, type |-> None]

\* the panel is not on the page; useState gives its state when it mounts
NoPanel ==
  /\ panelMounted = FALSE
  /\ selectedVision = "deuteranopia"
  /\ simulatePreview = FALSE

Init ==
  /\ FirstRender
  /\ localStorage \in StoredEntries
  /\ urlHash \in InitialHashes
  /\ strictMode \in BOOLEAN
  /\ clock = 0
  /\ pc = "load"
  /\ nOps = 0
  /\ opsSinceMount = 0
  /\ lastOp = "mount"
  /\ mountStorage = localStorage
  /\ mountHash = urlHash
  /\ storageRead = FALSE
  /\ shared = None
  /\ lastArgs = NoArgs
  /\ nModeOps = 0
  /\ NoPanel
  /\ arg = NoCall
  /\ ret = NoCall

\* Date.now(): a page lives some 1000 ms after the stored session's ids
DateNow == 1000 + clock

(***************************************************************************)
(* Mount: the load effect, the save effect, StrictMode's second invocation *)
(* of both, and the render that commits the queued updates                 *)
(***************************************************************************)
\* what the load effect leaves alone
LoadEffectFrame ==
  /\ UNCHANGED <<colors, typography, colorScalesConfig, colorScalesEnabled,
                 fullSystemEnabled, loadedFromUrl, colorMode, darkColors,
                 autoSyncDark, visionSimulation, colorScales, fullColorSystem>>
  /\ UNCHANGED <<localStorage, strictMode, clock>>
  /\ UNCHANGED <<nOps, opsSinceMount, lastOp, mountStorage, mountHash, shared,
                 lastArgs, nModeOps>>
  /\ UNCHANGED <<panelVars, fnVars>>

\* the setState calls of the localStorage branch, on top of those queued
StorageUpdates(q) ==
  IF localStorage # None /\ IsJson(localStorage[1])
    THEN LET u == LoadedUpdates(JsonParse(localStorage[1]), FALSE)
         IN  [f \in DOMAIN q |-> IF u[f] # None THEN u[f] ELSE q[f]]
    ELSE q

\* the load effect without the isInitialized guard
LoadEffectNoGuard ==
  /\ pc \in {"load", "load2"}
  /\ pc' = IF pc = "load" THEN "save" ELSE "save2"
  /\ isInitialized' = TRUE
  /\ LET urlState == getStateFromUrl(urlHash)
     IN  IF urlState # None
           THEN /\ queued' = LoadedUpdates(urlState[1], TRUE)
                /\ urlHash' = EmptyText
                /\ UNCHANGED storageRead
           ELSE /\ storageRead' = TRUE
                /\ UNCHANGED urlHash
                /\ queued' = StorageUpdates(queued)
  /\ LoadEffectFrame

\* the load effect without the return that ends the URL branch
LoadEffectFallThrough ==
  /\ pc \in {"load", "load2"}
  /\ pc' = IF pc = "load" THEN "save" ELSE "save2"
  /\ IF isInitialized
       THEN UNCHANGED <<queued, urlHash, storageRead, isInitialized>>
       ELSE /\ isInitialized' = TRUE
            /\ storageRead' = TRUE
            /\ LET urlState == getStateFromUrl(urlHash)
               IN  IF urlState # None
                     THEN /\ queued' = StorageUpdates(LoadedUpdates(urlState[1], TRUE))
                          /\ urlHash' = EmptyText
                     ELSE /\ UNCHANGED urlHash
                          /\ queued' = StorageUpdates(queued)
  /\ LoadEffectFrame

\* useEffect(() => { if (isInitialized.current) return; ... }, [])
LoadEffect ==
  /\ pc \in {"load", "load2"}
  /\ pc' = IF pc = "load" THEN "save" ELSE "save2"
  /\ IF isInitialized
       THEN UNCHANGED <<queued, urlHash, storageRead, isInitialized>>
       ELSE /\ isInitialized' = TRUE
            /\ LET urlState == getStateFromUrl(urlHash)
               IN  IF urlState # None
                     THEN /\ queued' = LoadedUpdates(urlState[1], TRUE)
                          /\ urlHash' = EmptyText
                          /\ UNCHANGED storageRead
                     ELSE /\ storageRead' = TRUE
                          /\ UNCHANGED urlHash
                          /\ queued' = StorageUpdates(queued)
  /\ LoadEffectFrame

\* useEffect(() => { localStorage.setItem(...) }, [colors, typography, ...])
\* as run with the values of the first render
SaveEffect ==
  /\ pc \in {"save", "save2"}
  /\ pc' = IF pc = "save" /\ strictMode THEN "load2" ELSE "commit"
  /\ localStorage' = Some(JsonStringify(ShareableState))
  /\ UNCHANGED <<hookVars, urlHash, strictMode, clock, histVars, panelVars, fnVars>>

Pick(opt, current) == IF opt = None THEN current ELSE opt[1]

\* the render after the mount effects: the queued updates become the state,
\* and the save effect runs again when one of its dependencies changed
Commit ==
  /\ pc = "commit"
  /\ pc' = "ready"
  /\ colors' = Pick(queued.colors, colors)
  /\ typography' = Pick(queued.typography, typography)
  /\ colorScalesConfig' = Pick(queued.colorScalesConfig, colorScalesConfig)
  /\ colorScalesEnabled' = Pick(queued.colorScalesEnabled, colorScalesEnabled)
  /\ fullSystemEnabled' = Pick(queued.fullSystemEnabled, fullSystemEnabled)
  /\ loadedFromUrl' = Pick(queued.loadedFromUrl, loadedFromUrl)
  /\ queued' = NoUpdates
  /\ RenderMemos
  /\ IF <<colors', typography', colorScalesConfig', colorScalesEnabled', fullSystemEnabled'>>
        # <<colors, typography, colorScalesConfig, colorScalesEnabled, fullSystemEnabled>>
       THEN SaveEffectWrites
       ELSE UNCHANGED localStorage
  /\ UNCHANGED <<colorMode, darkColors, autoSyncDark, visionSimulation, isInitialized>>
  /\ UNCHANGED <<urlHash, strictMode, clock, histVars, panelVars, fnVars>>

(***************************************************************************)
(* Operations of the mounted hook.  An operation is the handler together   *)
(* with the render it causes: the memos and the save effect.               *)
(***************************************************************************)
\* inputs of the operations
EditIds == {1, 3, 5, 999}
HexInputs == {<<15, 15, 15>>, <<7, 7, 7, 7, 7, 7>>, <<15, 15>>, << >>}
HslInputs == {[h |-> 360, s |-> 100, l |-> 50], [h |-> 120, s |-> 0, l |-> 20]}
RoleInputs == {"background", "text"}
RandomHexes == {<<1, 2, 3, 4, 5, 6>>, <<15, 15, 15, 15, 15, 15>>}
PresetIds == {"default", "midnight", "unknown"}
BaseSizeInputs == {12, 24}
RatioInputs == {<<3, 2>>, <<9, 8>>}
HueInputs == {0, 360}
SaturationInputs == {0, 100}
SpacingInputs == {10, 60}

ColorNames ==
  <<"Color 1", "Color 2", "Color 3", "Color 4", "Color 5", "Color 6", "Color 7",
    "Color 8", "Color 9", "Color 10", "Color 11", "Color 12">>

NoColorUpdates == [role |-> None, name |-> None, hex |-> None, hsl |-> None]
ColorUpdates ==
  {[NoColorUpdates EXCEPT !.hex = Some(x)] : x \in HexInputs}
  \cup {[NoColorUpdates EXCEPT !.hsl = Some(x)] : x \in HslInputs}
  \cup {[NoColorUpdates EXCEPT !.role = Some(x)] : x \in RoleInputs}
  \cup {[NoColorUpdates EXCEPT !.name = Some("Ink")]}

\* the history of an operation called with the given arguments, which needs
\* a settled mount
OperationWith(name, args) ==
  /\ pc = "ready"
  /\ nOps < MaxOps
  /\ pc' = pc
  /\ nOps' = nOps + 1
  /\ opsSinceMount' = opsSinceMount + 1
  /\ lastOp' = name
  /\ lastArgs' = args
  /\ UNCHANGED <<mountStorage, mountHash, storageRead, shared, nModeOps>>

Operation(name) == OperationWith(name, NoArgs)

\* JavaScript truthiness of an optional string: undefined and "" are falsy
TruthyString(opt) == opt # None /\ opt[1] # << >>

\* the body of prev.map(color => ...) in updateColor for the matching entry
UpdatedColor(color, updates) ==
  LET newColor == [color EXCEPT !.role = Pick(updates.role, @),
                                !.name = Pick(updates.name, @),
                                !.hex = Pick(updates.hex, @),
                                !.hsl = Pick(updates.hsl, @)]
  IN  IF TruthyString(updates.hex) /\ updates.hsl = None
        THEN [newColor EXCEPT !.hsl = hexToHsl(updates.hex[1])]
      ELSE IF updates.hsl # None /\ ~TruthyString(updates.hex)
        THEN [newColor EXCEPT !.hex = hslToHex(updates.hsl[1].h, updates.hsl[1].s,
                                               updates.hsl[1].l)]
      ELSE newColor

RECURSIVE MapUpdate(_, _, _)
MapUpdate(cs, id, updates) ==
  IF cs = << >> THEN << >>
  ELSE <<IF Head(cs).id # id THEN Head(cs) ELSE UpdatedColor(Head(cs), updates)>>
       \o MapUpdate(Tail(cs), id, updates)

RECURSIVE FilterOutId(_, _)
FilterOutId(cs, id) ==
  IF cs = << >> THEN << >>
  ELSE IF Head(cs).id # id THEN <<Head(cs)>> \o FilterOutId(Tail(cs), id)
       ELSE FilterOutId(Tail(cs), id)

\* what an operation on the palette leaves alone
PaletteFrame ==
  /\ UNCHANGED <<typography, colorScalesConfig, colorScalesEnabled, fullSystemEnabled,
                 loadedFromUrl, colorMode, darkColors, autoSyncDark,
                 visionSimulation, isInitialized, queued>>
  /\ RenderMemos
  /\ SaveEffectWrites
  /\ UNCHANGED <<urlHash, strictMode, clock, panelVars, fnVars>>

updateColor ==
  \E id \in EditIds, updates \in ColorUpdates :
    /\ OperationWith("updateColor",
                     [NoArgs EXCEPT !.id = Some(id), !.updates = Some(updates)])
    /\ colors' = MapUpdate(colors, id, updates)
    /\ PaletteFrame

\* the entry addColor appends, named by the length of the palette
NewColorNamedByLength(prev, role, newId, randomHex) ==
  [id |-> newId, role |-> role, name |-> ColorNames[Len(prev)],
   hex |-> randomHex, hsl |-> hexToHsl(randomHex)]

\* the entry the updater of addColor appends to prev
NewColor(prev, role, newId, randomHex) ==
  [id |-> newId, role |-> role, name |-> ColorNames[Len(prev) + 1],
   hex |-> randomHex, hsl |-> hexToHsl(randomHex)]

\* the roles addColor is called with: the panel's "accent", the default
\* (no argument) and one more
AddedRoles == {None, Some("accent"), Some("surface")}

addColor ==
  \E randomHex \in RandomHexes, role \in AddedRoles :
    /\ OperationWith("addColor", [NoArgs EXCEPT !.role = role])
    /\ Len(colors) < MaxColors
    /\ colors' = Append(colors, NewColor(colors, Pick(role, "accent"), DateNow,
                                         randomHex))
    /\ PaletteFrame

removeColor ==
  \E id \in EditIds :
    /\ OperationWith("removeColor", [NoArgs EXCEPT !.id = Some(id)])
    /\ colors' = FilterOutId(colors, id)
    /\ PaletteFrame

applyPreset ==
  \E presetId \in PresetIds :
    /\ Operation("applyPreset")
    /\ IF presetId \in DOMAIN COLOR_PRESETS
         THEN /\ colors' = WithIds(COLOR_PRESETS[presetId], DateNow)
              /\ PaletteFrame
         ELSE UNCHANGED <<hookVars, envVars, panelVars, fnVars>>

NoTypographyUpdates ==
  [baseSize |-> None, scaleRatio |-> None, headingFont |-> None, bodyFont |-> None]
TypographyUpdates ==
  {[NoTypographyUpdates EXCEPT !.baseSize = Some(x)] : x \in BaseSizeInputs}
  \cup {[NoTypographyUpdates EXCEPT !.scaleRatio = Some(x)] : x \in RatioInputs}
  \cup {[NoTypographyUpdates EXCEPT !.headingFont = Some("Inter")],
        [NoTypographyUpdates EXCEPT !.bodyFont = Some("Roboto")]}

\* the updater of setTypography in updateTypography
UpdatedTypography(prev, updates) ==
  LET newTypo == [prev EXCEPT !.baseSize = Pick(updates.baseSize, @),
                              !.scaleRatio = Pick(updates.scaleRatio, @),
                              !.headingFont = Pick(updates.headingFont, @),
                              !.bodyFont = Pick(updates.bodyFont, @)]
  IN  [newTypo EXCEPT !.steps = generateTypographySteps(newTypo.baseSize,
                                                        newTypo.scaleRatio)]

updateTypography ==
  \E updates \in TypographyUpdates :
    /\ Operation("updateTypography")
    /\ typography' = UpdatedTypography(typography, updates)
    /\ UNCHANGED <<colors, colorScalesConfig, colorScalesEnabled, fullSystemEnabled,
                   loadedFromUrl, colorMode, darkColors, autoSyncDark,
                   visionSimulation, isInitialized, queued>>
    /\ RenderMemos
    /\ SaveEffectWrites
    /\ UNCHANGED <<urlHash, strictMode, clock, panelVars, fnVars>>

NoConfigUpdates == [type |-> None, baseHue |-> None, saturation |-> None, spacing |-> None]

\* the brand colours of the palette, whose hue and saturation the panel's
\* "Start from Palette Color" buttons pass on
BrandColorUpdates ==
  {[NoConfigUpdates EXCEPT !.baseHue = Some(colors[i].hsl.h),
                           !.saturation = Some(colors[i].hsl.s)] :
     i \in {j \in 1..Len(colors) :
              colors[j].role \in {"primary", "secondary", "accent"}}}

ConfigUpdates ==
  {[NoConfigUpdates EXCEPT !.type = Some(x)] : x \in HarmonyTypes}
  \cup {[NoConfigUpdates EXCEPT !.baseHue = Some(x)] : x \in HueInputs}
  \cup {[NoConfigUpdates EXCEPT !.saturation = Some(x)] : x \in SaturationInputs}
  \cup {[NoConfigUpdates EXCEPT !.spacing = Some(x)] : x \in SpacingInputs}
  \cup BrandColorUpdates

\* the updater of setColorScalesConfig: { ...prev, ...updates }
UpdatedConfig(prev, updates) ==
  [prev EXCEPT !.type = Pick(updates.type, @),
               !.baseHue = Pick(updates.baseHue, @),
               !.saturation = Pick(updates.saturation, @),
               !.spacing = Pick(updates.spacing, @)]

\* what an operation on the colour scales leaves alone
ScalesFrame ==
  /\ UNCHANGED <<colors, typography, loadedFromUrl, colorMode, darkColors,
                 autoSyncDark, visionSimulation, isInitialized, queued>>
  /\ RenderMemos
  /\ SaveEffectWrites
  /\ UNCHANGED <<urlHash, strictMode, clock, panelVars, fnVars>>

updateColorScalesConfig ==
  \E updates \in ConfigUpdates :
    /\ Operation("updateColorScalesConfig")
    /\ colorScalesConfig' = UpdatedConfig(colorScalesConfig, updates)
    /\ UNCHANGED <<colorScalesEnabled, fullSystemEnabled>>
    /\ ScalesFrame

setColorScalesEnabled ==
  \E value \in BOOLEAN :
    /\ Operation("setColorScalesEnabled")
    /\ colorScalesEnabled' = value
    /\ UNCHANGED <<colorScalesConfig, fullSystemEnabled>>
    /\ ScalesFrame

toggleColorScales ==
  /\ Operation("toggleColorScales")
  /\ colorScalesEnabled' = ~colorScalesEnabled
  /\ UNCHANGED <<colorScalesConfig, fullSystemEnabled>>
  /\ ScalesFrame

setFullSystemEnabled ==
  \E value \in BOOLEAN :
    /\ Operation("setFullSystemEnabled")
    /\ fullSystemEnabled' = value
    /\ UNCHANGED <<colorScalesConfig, colorScalesEnabled>>
    /\ ScalesFrame

\* reset() as the release before the colour scales had it: colours and
\* typography only
ResetValuesOfOldRelease ==
  [colors |-> DEFAULT_COLORS,
   typography |-> [DEFAULT_TYPOGRAPHY EXCEPT
                     !.steps = generateTypographySteps(DEFAULT_TYPOGRAPHY.baseSize,
                                                       DEFAULT_TYPOGRAPHY.scaleRatio)],
   colorScalesConfig |-> colorScalesConfig,
   colorScalesEnabled |-> colorScalesEnabled,
   fullSystemEnabled |-> fullSystemEnabled]

\* the values reset() passes to the five setters
ResetValues ==
  [colors |-> DEFAULT_COLORS,
   typography |-> [DEFAULT_TYPOGRAPHY EXCEPT
                     !.steps = generateTypographySteps(DEFAULT_TYPOGRAPHY.baseSize,
                                                       DEFAULT_TYPOGRAPHY.scaleRatio)],
   colorScalesConfig |-> DEFAULT_SCALES_CONFIG,
   colorScalesEnabled |-> FALSE,
   fullSystemEnabled |-> FALSE]

\* reset(): the setters, localStorage.removeItem, then the render, whose save
\* effect runs because setTypography was given a new object
reset ==
  /\ Operation("reset")
  /\ colors' = ResetValues.colors
  /\ typography' = ResetValues.typography
  /\ colorScalesConfig' = ResetValues.colorScalesConfig
  /\ colorScalesEnabled' = ResetValues.colorScalesEnabled
  /\ fullSystemEnabled' = ResetValues.fullSystemEnabled
  /\ UNCHANGED <<loadedFromUrl, colorMode, darkColors, autoSyncDark,
                 visionSimulation, isInitialized, queued>>
  /\ RenderMemos
  /\ SaveEffectWrites
  /\ UNCHANGED <<urlHash, strictMode, clock, panelVars, fnVars>>

\* time passes
Tick ==
  /\ pc = "ready"
  /\ clock < MaxClock
  /\ clock' = clock + 1
  /\ UNCHANGED <<hookVars, localStorage, urlHash, strictMode, pc, histVars, panelVars, fnVars>>

\* a page load: the first render of a new hook instance on the given hash
PageLoad(hash, storage) ==
  /\ colors' = DEFAULT_COLORS
  /\ typography' = DEFAULT_TYPOGRAPHY
  /\ colorScalesConfig' = DEFAULT_SCALES_CONFIG
  /\ colorScalesEnabled' = FALSE
  /\ fullSystemEnabled' = FALSE
  /\ loadedFromUrl' = FALSE
  /\ colorMode' = "light"
  /\ darkColors' = None
  /\ autoSyncDark' = TRUE
  /\ visionSimulation' = "normal"
  /\ isInitialized' = FALSE
  /\ colorScales' = ColorScalesMemo(DEFAULT_SCALES_CONFIG, FALSE)
  /\ fullColorSystem' = FullColorSystemMemo(DEFAULT_SCALES_CONFIG, FALSE)
  /\ queued' = NoUpdates
  /\ urlHash' = hash
  /\ localStorage' = storage
  /\ pc' = "load"
  /\ opsSinceMount' = 0
  /\ mountStorage' = storage
  /\ mountHash' = hash
  /\ storageRead' = FALSE
  /\ lastArgs' = NoArgs
  /\ panelMounted' = FALSE
  /\ selectedVision' = "deuteranopia"
  /\ simulatePreview' = FALSE
  /\ UNCHANGED <<strictMode, clock, nModeOps, fnVars>>

\* the user reloads the page: the session's localStorage entry is what the
\* new instance finds
Reload ==
  /\ pc = "ready"
  /\ nOps < MaxOps
  /\ nOps' = nOps + 1
  /\ lastOp' = "reload"
  /\ shared' = None
  /\ PageLoad(EmptyText, localStorage)

\* getShareUrl(): the link to the current state
getShareUrl == generateShareUrl(ShareableState)

\* the link made by getShareUrl() is opened, in this browser or in one whose
\* localStorage has no entry
OpenShareLink ==
  \E storage \in {localStorage, None} :
    /\ pc = "ready"
    /\ nOps < MaxOps
    /\ nOps' = nOps + 1
    /\ lastOp' = "share"
    /\ shared' = Some(ShareableState)
    /\ PageLoad(getShareUrl, storage)

Next ==
  \/ LoadEffect
  \/ SaveEffect
  \/ Commit
  \/ updateColor
  \/ addColor
  \/ removeColor
  \/ applyPreset
  \/ updateTypography
  \/ updateColorScalesConfig
  \/ setColorScalesEnabled
  \/ toggleColorScales
  \/ setFullSystemEnabled
  \/ reset
  \/ Tick
  \/ Reload
  \/ OpenShareLink

Spec == Init /\ [][Next]_vars

(***************************************************************************)
(* Colour mode, dark palette and vision simulation.  Each of the three     *)
(* memos lists every value it reads as a dependency, so its value is the   *)
(* one computed from the current state.                                    *)
(***************************************************************************)
\* operations on the colour mode, the dark palette, the vision simulation
\* and the panel, per page
MaxModeOps == 4

\* the memo of computedDarkColors giving the stored palette whatever
\* autoSyncDark is
ComputedDarkColorsStored(cs, auto, dark) == dark

\* const computedDarkColors = useMemo(...) for the given dependencies: null
\* is None
ComputedDarkColorsMemo(cs, auto, dark) ==
  IF auto THEN Some(generateDarkPalette(cs)) ELSE dark

\* const currentColors = useMemo(...) for the given dependencies
CurrentColorsMemo(mode, cs, computed) ==
  IF mode = "dark" /\ computed # None THEN computed[1] ELSE cs

\* currentColors.map(color => ({ ...color, hex: simulateColorBlindness(...) }))
SimulatedPalette(cs, type) ==
  [i \in 1..Len(cs) |-> [cs[i] EXCEPT !.hex = simulateColorBlindness(@, type)]]

\* const previewColors = useMemo(...) for the given dependencies
PreviewColorsMemo(current, vision) ==
  IF vision = "normal" THEN current ELSE SimulatedPalette(current, vision)

\* the three memos of the render of the current state
computedDarkColors == ComputedDarkColorsMemo(colors, autoSyncDark, darkColors)
currentColors ==
  Once({CurrentColorsMemo(colorMode, colors, computed) :
          computed \in {computedDarkColors}})
previewColors ==
  Once({PreviewColorsMemo(current, visionSimulation) : current \in {currentColors}})

\* the history of an operation that changes none of the saved state
ModeOperation(name, args) ==
  /\ pc = "ready"
  /\ nModeOps < MaxModeOps
  /\ pc' = pc
  /\ nModeOps' = nModeOps + 1
  /\ opsSinceMount' = opsSinceMount + 1
  /\ lastOp' = name
  /\ lastArgs' = args
  /\ UNCHANGED <<nOps, mountStorage, mountHash, storageRead, shared>>

\* what these operations leave alone: the save effect has none of their
\* state among its dependencies
ModeFrame ==
  /\ UNCHANGED <<colors, typography, colorScalesConfig, colorScalesEnabled,
                 fullSystemEnabled, loadedFromUrl, isInitialized, colorScales,
                 fullColorSystem, queued>>
  /\ UNCHANGED <<envVars, fnVars>>

toggleColorMode ==
  /\ ModeOperation("toggleColorMode", NoArgs)
  /\ colorMode' = IF colorMode = "light" THEN "dark" ELSE "light"
  /\ UNCHANGED <<darkColors, autoSyncDark, visionSimulation, panelVars>>
  /\ ModeFrame

setColorMode ==
  \E mode \in {"light", "dark"} :
    /\ ModeOperation("setColorMode", [NoArgs EXCEPT !.mode = Some(mode)])
    /\ colorMode' = mode
    /\ UNCHANGED <<darkColors, autoSyncDark, visionSimulation, panelVars>>
    /\ ModeFrame

regenerateDarkPalette ==
  /\ ModeOperation("regenerateDarkPalette", NoArgs)
  /\ darkColors' = Some(generateDarkPalette(colors))
  /\ UNCHANGED <<colorMode, autoSyncDark, visionSimulation, panelVars>>
  /\ ModeFrame

toggleAutoSyncDark ==
  /\ ModeOperation("toggleAutoSyncDark", NoArgs)
  /\ autoSyncDark' = ~autoSyncDark
  /\ UNCHANGED <<colorMode, darkColors, visionSimulation, panelVars>>
  /\ ModeFrame

\* inputs of updateDarkColor: the id of the first entry and one that matches
\* none, a hex and an hsl
DarkEditIds == {1, 999}
DarkColorUpdates ==
  {[NoColorUpdates EXCEPT !.hex = Some(<<15, 15, 15>>)],
   [NoColorUpdates EXCEPT !.hsl = Some([h |-> 120, s |-> 0, l |-> 20])]}

\* updateDarkColor(id, updates): nothing without a stored dark palette
updateDarkColor ==
  \E id \in DarkEditIds, updates \in DarkColorUpdates :
    /\ ModeOperation("updateDarkColor",
                     [NoArgs EXCEPT !.id = Some(id), !.updates = Some(updates)])
    /\ darkColors' = IF darkColors = None THEN darkColors
                     ELSE Some(MapUpdate(darkColors[1], id, updates))
    /\ UNCHANGED <<colorMode, autoSyncDark, visionSimulation, panelVars>>
    /\ ModeFrame

setVisionSimulation ==
  \E type \in VisionTypes :
    /\ ModeOperation("setVisionSimulation", [NoArgs EXCEPT !.type = Some(type)])
    /\ visionSimulation' = type
    /\ UNCHANGED <<colorMode, darkColors, autoSyncDark, panelVars>>
    /\ ModeFrame

(***************************************************************************)
(* ColorBlindnessPanel                                                     *)
(***************************************************************************)
\* const handleSimulatePreviewToggle = () => { ... }
handleSimulatePreviewToggle ==
  /\ panelMounted
  /\ ModeOperation("handleSimulatePreviewToggle", NoArgs)
  /\ LET newValue == ~simulatePreview
     IN  /\ simulatePreview' = newValue
         /\ visionSimulation' = IF newValue THEN selectedVision ELSE "normal"
  /\ UNCHANGED <<panelMounted, selectedVision>>
  /\ UNCHANGED <<colorMode, darkColors, autoSyncDark>>
  /\ ModeFrame

\* const handleVisionChange = (value) => { ... }, for the values of the
\* panel's radio group
handleVisionChange ==
  \E value \in DeficiencyTypes :
    /\ panelMounted
    /\ ModeOperation("handleVisionChange", [NoArgs EXCEPT !.type = Some(value)])
    /\ selectedVision' = value
    /\ visionSimulation' = IF simulatePreview THEN value ELSE visionSimulation
    /\ UNCHANGED <<panelMounted, simulatePreview>>
    /\ UNCHANGED <<colorMode, darkColors, autoSyncDark>>
    /\ ModeFrame

\* the page shows the panel: its useState calls give the initial values
MountPanel ==
  /\ ~panelMounted
  /\ ModeOperation("MountPanel", NoArgs)
  /\ panelMounted' = TRUE
  /\ selectedVision' = "deuteranopia"
  /\ simulatePreview' = FALSE
  /\ UNCHANGED <<colorMode, darkColors, autoSyncDark, visionSimulation>>
  /\ ModeFrame

\* the page takes the panel away: its state is gone, the hook's stays
UnmountPanel ==
  /\ panelMounted
  /\ ModeOperation("UnmountPanel", NoArgs)
  /\ panelMounted' = FALSE
  /\ selectedVision' = "deuteranopia"
  /\ simulatePreview' = FALSE
  /\ UNCHANGED <<colorMode, darkColors, autoSyncDark, visionSimulation>>
  /\ ModeFrame

\* a page without a share link, a stored session or StrictMode
InitModes ==
  /\ Init
  /\ localStorage = None
  /\ urlHash = EmptyText
  /\ ~strictMode

NextModes ==
  \/ LoadEffect
  \/ SaveEffect
  \/ Commit
  \/ addColor
  \/ removeColor
  \/ toggleColorMode
  \/ setColorMode
  \/ regenerateDarkPalette
  \/ toggleAutoSyncDark
  \/ updateDarkColor
  \/ setVisionSimulation

SpecModes == InitModes /\ [][NextModes]_vars

\* the dark palette on its own: the operations that make, store, edit and
\* show it, over palettes that removeColor has shortened
NextDark ==
  \/ LoadEffect
  \/ SaveEffect
  \/ Commit
  \/ removeColor
  \/ toggleColorMode
  \/ regenerateDarkPalette
  \/ toggleAutoSyncDark
  \/ updateDarkColor

SpecDark == InitModes /\ [][NextDark]_vars

NextPanel ==
  \/ LoadEffect
  \/ SaveEffect
  \/ Commit
  \/ updateColor
  \/ toggleColorMode
  \/ MountPanel
  \/ UnmountPanel
  \/ handleSimulatePreviewToggle
  \/ handleVisionChange

SpecPanel == InitModes /\ [][NextPanel]_vars

(***************************************************************************)
(* The pure functions on their own: a call is chosen, then made            *)
(***************************************************************************)
\* the hook is not in play
NoHook ==
  /\ FirstRender
  /\ localStorage = None
  /\ urlHash = EmptyText
  /\ strictMode = FALSE
  /\ clock = 0
  /\ pc = "pure"
  /\ nOps = 0
  /\ opsSinceMount = 0
  /\ lastOp = "none"
  /\ mountStorage = None
  /\ mountHash = EmptyText
  /\ storageRead = FALSE
  /\ shared = None
  /\ lastArgs = NoArgs
  /\ nModeOps = 0
  /\ NoPanel

Returns(value) ==
  /\ ret.fn = "none"
  /\ ret' = [fn |-> arg.fn, value |-> value]
  /\ UNCHANGED <<hookVars, envVars, pc, histVars, panelVars, arg>>

\* generateHarmony over the panel's sliders: hue 0..360, spacing 10..60 in
\* steps of 5, saturation 0..100
MaxHue == 360
MinSpacing == 10
MaxSpacing == 60
SpacingStep == 5
HarmonyConfigs ==
  [type : HarmonyTypes,
   baseHue : 0..MaxHue,
   saturation : {0, 100},
   spacing : {x \in MinSpacing..MaxSpacing : (x - MinSpacing) % SpacingStep = 0}]

InitHarmony ==
  /\ NoHook
  /\ arg \in [fn : {"generateHarmony"}, config : HarmonyConfigs]
  /\ ret = NoCall

CallGenerateHarmony == Returns(generateHarmony(arg.config))

SpecHarmony == InitHarmony /\ [][CallGenerateHarmony]_vars

\* generateTypographySteps over base sizes up to the slider's maximum and
\* the ratios of the select, with the ratio 1 beside them
MaxBaseSize == 24
TypographyArgs ==
  [fn : {"generateTypographySteps"}, baseSize : 1..MaxBaseSize,
   ratio : SCALE_RATIOS \cup {<<1, 1>>}]

InitTypography ==
  /\ NoHook
  /\ arg \in TypographyArgs
  /\ ret = NoCall

CallGenerateTypographySteps ==
  Returns(generateTypographySteps(arg.baseSize, arg.ratio))

SpecTypography == InitTypography /\ [][CallGenerateTypographySteps]_vars

(***************************************************************************)
(* Colour extraction: semantic roles for the dominant colours of an image  *)
(***************************************************************************)
\* saturation from which a colour counts as chromatic
CHROMATIC_THRESHOLD == 20
\* saturation brand colours are boosted to
MIN_BRAND_SATURATION == 55

FracSub(x, y) == Frac(x[1] * y[2] - y[1] * x[2], x[2] * y[2])
FracAbs(x) == <<Abs(x[1]), x[2]>>
FracMin(x, y) == IF FracLess(y, x) THEN y ELSE x

\* chroma(rgb).hsl()[0], not rounded, as the numerator of a fraction over
\* max - min in units of 60 degrees; negative hues are turned by 360
HueSixths(rgb) ==
  LET r == rgb[1]
      g == rgb[2]
      b == rgb[3]
      mx == Max(r, Max(g, b))
      mn == Min(r, Min(g, b))
      dl == mx - mn
  IN  IF r = mx THEN (IF g - b < 0 THEN g - b + 6 * dl ELSE g - b)
      ELSE IF g = mx THEN 2 * dl + (b - r)
      ELSE 4 * dl + (r - g)

\* chroma(hex).hsl()[0] || 0 in degrees: a grey has the hue NaN, hence 0
HueOrZero(hex) ==
  LET rgb == HexToRgb(hex)
      dl == Max(rgb[1], Max(rgb[2], rgb[3])) - Min(rgb[1], Min(rgb[2], rgb[3]))
  IN  IF dl = 0 THEN FracOfInt(0) ELSE Frac(60 * HueSixths(rgb), dl)

\* chroma.hsl(h || 0, sat / 100, l).rgb() for sat > 0, with h and l the hue
\* and lightness of rgb: t1 and t2 of chroma's hsl2rgb are kept as
\* numerators over 51000, a channel's position on the hue circle as a
\* numerator over 6 * c
ResaturateRgb(rgb, sat) ==
  LET mx == Max(rgb[1], Max(rgb[2], rgb[3]))
      mn == Min(rgb[1], Min(rgb[2], rgb[3]))
      sum == mx + mn
      c == IF mx = mn THEN 1 ELSE mx - mn
      hn == IF mx = mn THEN 0 ELSE HueSixths(rgb)
      t2 == IF sum < 255 THEN sum * (100 + sat)
            ELSE 100 * sum + 510 * sat - sum * sat
      t1 == 200 * sum - t2
      Position(k) ==
        LET x0 == hn + 2 * c * k
        IN  IF x0 < 0 THEN x0 + 6 * c
            ELSE IF x0 > 6 * c THEN x0 - 6 * c ELSE x0
      Channel(x) ==
        RoundDiv(IF x < c THEN t1 * c + (t2 - t1) * x
                 ELSE IF x < 3 * c THEN t2 * c
                 ELSE IF x < 4 * c THEN t1 * c + (t2 - t1) * (4 * c - x)
                 ELSE t1 * c,
                 200 * c)
  IN  [i \in 1..3 |-> Once({Channel(x) : x \in {Position(2 - i)}})]

\* const [h, , l] = chroma(hex).hsl(); chroma.hsl(h || 0, sat / 100, l).hex()
Resaturate(hex, sat) ==
  Once({RgbToHex(ResaturateRgb(rgb, sat)) : rgb \in {HexToRgb(hex)}})

\* an entry of extractColorsFromUrl: lightness and saturation in percent,
\* not rounded. src is not in the code: it names the extracted colour an
\* entry comes from and travels with the spreads of the two functions below
ExtractedColor(hex) ==
  LET rgb == HexToRgb(hex)
      mx == Max(rgb[1], Max(rgb[2], rgb[3]))
      mn == Min(rgb[1], Min(rgb[2], rgb[3]))
      sum == mx + mn
  IN  [hex |-> hex, rgb |-> rgb,
       lightness |-> Frac(100 * sum, 510),
       saturation |-> IF mx = mn THEN FracOfInt(0)
                      ELSE IF sum < 255 THEN Frac(100 * (mx - mn), sum)
                      ELSE Frac(100 * (mx - mn), 510 - sum),
       src |-> hex]

\* function boostSaturation(color)
boostSaturation(color) ==
  IF ~FracLess(color.saturation, FracOfInt(MIN_BRAND_SATURATION)) THEN color
  ELSE Once({[color EXCEPT !.hex = newHex,
                          !.saturation = FracOfInt(MIN_BRAND_SATURATION),
                          !.rgb = HexToRgb(newHex)] :
               newHex \in {Resaturate(color.hex, MIN_BRAND_SATURATION)}})

\* function cleanNeutral(color, maxSat)
cleanNeutral(color, maxSat) ==
  IF ~FracLess(FracOfInt(maxSat), color.saturation) THEN color
  ELSE Once({[color EXCEPT !.hex = newHex,
                          !.saturation = FracOfInt(maxSat),
                          !.rgb = HexToRgb(newHex)] :
               newHex \in {Resaturate(color.hex, maxSat)}})

\* the comparators of the sorts: a sorts before b
SortsBefore(order, a, b) ==
  CASE order = "saturation desc" -> FracLess(b.saturation, a.saturation)
    [] order = "saturation asc" -> FracLess(a.saturation, b.saturation)
    [] order = "lightness desc" -> FracLess(b.lightness, a.lightness)
    [] order = "lightness asc" -> FracLess(a.lightness, b.lightness)

\* [...cs].sort(comparator): Array.prototype.sort is stable, so an entry
\* lands behind the entries that sort before it and behind the earlier
\* entries the comparator holds equal to it
SortColors(cs, order) ==
  LET Ahead(i) ==
        {j \in 1..Len(cs) :
           \/ SortsBefore(order, cs[j], cs[i])
           \/ (j < i /\ ~SortsBefore(order, cs[i], cs[j]))}
  IN  [k \in 1..Len(cs) |->
         cs[CHOOSE i \in 1..Len(cs) : Cardinality(Ahead(i)) = k - 1]]

\* cs.find(P): the first entry that satisfies P, or undefined
Find(cs, P(_)) ==
  LET found == SelectSeq(cs, P) IN IF Len(found) > 0 THEN Some(found[1]) ELSE None

\* c.hex !== result.role?.hex
HexDiffers(c, assigned) == Len(assigned) = 0 \/ c.hex # assigned[1].hex

\* Math.min(diff, 360 - diff) > degrees for diff = Math.abs(hue - usedHue)
HueApart(hue, usedHue, degrees) ==
  LET diff == FracAbs(FracSub(hue, usedHue))
  IN  FracLess(FracOfInt(degrees), FracMin(diff, FracSub(FracOfInt(360), diff)))

\* autoAssignRoles step by step. r holds the function's locals: the lists
\* it sorts at its start and result, whose roles are Some(colour) once
\* assigned.
\* const chromatic ... const fallbackNeutrals; result = {}
AssignStart(cs) ==
  LET chromatic ==
        SelectSeq(cs, LAMBDA c :
          ~FracLess(c.saturation, FracOfInt(CHROMATIC_THRESHOLD)))
      neutrals ==
        SelectSeq(cs, LAMBDA c :
          FracLess(c.saturation, FracOfInt(CHROMATIC_THRESHOLD)))
      neutralsByLight == SortColors(neutrals, "lightness desc")
  IN  [colors |-> cs,
       chromaticBySat |-> SortColors(chromatic, "saturation desc"),
       fallbackNeutrals |->
         IF Len(neutralsByLight) > 0 THEN neutralsByLight
         ELSE SortColors(cs, "saturation asc"),
       availableChromatic |-> << >>,
       background |-> None, surface |-> None, text |-> None,
       textMuted |-> None, primary |-> None, secondary |-> None,
       accent |-> None]

\* background: a light neutral, else the lightest colour of all
AssignBackground(r) ==
  LET bgCandidate ==
        Find(r.fallbackNeutrals, LAMBDA c : FracLess(FracOfInt(70), c.lightness))
      lightest == SortColors(r.colors, "lightness desc")
  IN  [r EXCEPT !.background =
         IF Len(bgCandidate) > 0 THEN Some(cleanNeutral(bgCandidate[1], 8))
         ELSE IF Len(lightest) > 0 THEN Some(cleanNeutral(lightest[1], 8))
         ELSE None]

\* surface: a light neutral whose hex is not the background's
AssignSurface(r) ==
  LET surfaceCandidate ==
        Find(r.fallbackNeutrals, LAMBDA c :
          FracLess(FracOfInt(60), c.lightness) /\ HexDiffers(c, r.background))
  IN  [r EXCEPT !.surface =
         IF Len(surfaceCandidate) > 0
           THEN Some(cleanNeutral(surfaceCandidate[1], 10))
           ELSE None]

\* text: a dark neutral, else the darkest colour of all when below 50
AssignText(r) ==
  LET textCandidate ==
        Find(SortColors(r.fallbackNeutrals, "lightness asc"),
             LAMBDA c : FracLess(c.lightness, FracOfInt(35)))
      darkest == SortColors(r.colors, "lightness asc")
  IN  [r EXCEPT !.text =
         IF Len(textCandidate) > 0 THEN textCandidate
         ELSE IF Len(darkest) > 0
                 /\ FracLess(darkest[1].lightness, FracOfInt(50))
           THEN Some(darkest[1])
         ELSE None]

\* muted text: a neutral below 50 whose hex is not the text's
AssignTextMuted(r) ==
  [r EXCEPT !.textMuted =
     Find(SortColors(r.fallbackNeutrals, "lightness asc"), LAMBDA c :
       FracLess(c.lightness, FracOfInt(50)) /\ HexDiffers(c, r.text))]

\* usedHexes and availableChromatic
AssignAvailable(r) ==
  LET usedHexes ==
        {a[1].hex : a \in {x \in {r.background, r.surface, r.text, r.textMuted} :
                             Len(x) > 0}}
      unused == SelectSeq(r.chromaticBySat, LAMBDA c : c.hex \notin usedHexes)
  IN  [r EXCEPT !.availableChromatic =
         IF Len(unused) = 0 /\ Len(r.colors) > 0
           THEN SortColors(SelectSeq(r.colors, LAMBDA c : c.hex \notin usedHexes),
                           "saturation desc")
           ELSE unused]

AssignPrimary(r) ==
  [r EXCEPT !.primary =
     IF Len(r.availableChromatic) > 0
       THEN Some(boostSaturation(r.availableChromatic[1]))
       ELSE None]

\* secondary: a hue more than 30 degrees from the primary's, else the
\* second available colour
AssignSecondary(r) ==
  LET primaryHue ==
        IF Len(r.primary) > 0 THEN HueOrZero(r.primary[1].hex) ELSE FracOfInt(0)
      secondaryCandidate ==
        Find(r.availableChromatic, LAMBDA c :
          HueApart(HueOrZero(c.hex), primaryHue, 30))
  IN  [r EXCEPT !.secondary =
         IF Len(r.availableChromatic) > 1
           THEN IF Len(secondaryCandidate) > 0
                  THEN Some(boostSaturation(secondaryCandidate[1]))
                  ELSE Some(boostSaturation(r.availableChromatic[2]))
           ELSE None]

\* accent: a hue more than 25 degrees from both, else any colour whose hex
\* is neither the primary's nor the secondary's
AssignAccent(r) ==
  LET usedHues ==
        {HueOrZero(a[1].hex) :
           a \in {x \in {r.primary, r.secondary} : Len(x) > 0}}
      distinctHue ==
        Find(r.availableChromatic, LAMBDA c :
          /\ HexDiffers(c, r.primary)
          /\ HexDiffers(c, r.secondary)
          /\ \A usedHue \in usedHues : HueApart(HueOrZero(c.hex), usedHue, 25))
      anyOther ==
        Find(r.availableChromatic, LAMBDA c :
          HexDiffers(c, r.primary) /\ HexDiffers(c, r.secondary))
  IN  [r EXCEPT !.accent =
         IF Len(r.availableChromatic) > 2
           THEN IF Len(distinctHue) > 0
                  THEN Some(boostSaturation(distinctHue[1]))
                  ELSE IF Len(anyOther) > 0
                    THEN Some(boostSaturation(anyOther[1]))
                    ELSE None
           ELSE None]

\* function autoAssignRoles(colors): the steps in the order of the code;
\* the value returned is result
autoAssignRoles(cs) ==
  LET start == {AssignStart(cs)}
      withBackground == {AssignBackground(r) : r \in start}
      withSurface == {AssignSurface(r) : r \in withBackground}
      withText == {AssignText(r) : r \in withSurface}
      withTextMuted == {AssignTextMuted(r) : r \in withText}
      withAvailable == {AssignAvailable(r) : r \in withTextMuted}
      withPrimary == {AssignPrimary(r) : r \in withAvailable}
      withSecondary == {AssignSecondary(r) : r \in withPrimary}
      withAccent == {AssignAccent(r) : r \in withSecondary}
  IN  Once({[role \in ColorRoles |-> r[role]] : r \in withAccent})

\* autoAssignRoles over lists of extracted colours with pairwise distinct
\* hex values: greys, tinted neutrals, muted and vivid colours
MaxExtracted == 3
ExtractedHexes ==
  {<<6, 6, 6, 6, 6, 6>>, <<7, 7, 7, 7, 7, 7>>, <<15, 5, 15, 5, 15, 5>>,
   <<1, 10, 1, 10, 1, 10>>, <<12, 8, 11, 14, 11, 4>>, <<10, 0, 6, 4, 5, 10>>,
   <<2, 0, 5, 0, 14, 0>>, <<2, 0, 12, 0, 4, 0>>}
ExtractedLists ==
  UNION {{s \in [1..n -> ExtractedHexes] :
            \A i, j \in 1..n : i < j => s[i] # s[j]} : n \in 0..MaxExtracted}

InitAssign ==
  /\ NoHook
  /\ arg \in {[fn |-> "autoAssignRoles",
               colors |-> [i \in 1..Len(s) |-> ExtractedColor(s[i])]] :
                s \in ExtractedLists}
  /\ ret = NoCall

CallAutoAssignRoles == Returns(autoAssignRoles(arg.colors))

SpecAssign == InitAssign /\ [][CallAutoAssignRoles]_vars

(***************************************************************************)
(* generateDarkPalette on its own                                          *)
(***************************************************************************)
\* palettes of up to MaxPalette entries: every role, with lightness on both
\* sides of 30, 40 and 70 and saturation on both sides of the caps
MaxPalette == 2
PaletteHsl ==
  {[h |-> 0, s |-> 0, l |-> 0], [h |-> 210, s |-> 4, l |-> 29],
   [h |-> 360, s |-> 12, l |-> 30], [h |-> 120, s |-> 90, l |-> 39],
   [h |-> 45, s |-> 18, l |-> 40], [h |-> 250, s |-> 60, l |-> 55],
   [h |-> 300, s |-> 83, l |-> 70], [h |-> 30, s |-> 100, l |-> 71],
   [h |-> 200, s |-> 50, l |-> 100]}
PaletteShapes == [role : ColorRoles, hsl : PaletteHsl]
Palettes ==
  UNION {{[i \in 1..n |->
             Entry(i, shape[i].role, ColorNames[i],
                   hslToHex(shape[i].hsl.h, shape[i].hsl.s, shape[i].hsl.l),
                   shape[i].hsl.h, shape[i].hsl.s, shape[i].hsl.l)] :
            shape \in [1..n -> PaletteShapes]} : n \in 0..MaxPalette}

InitDarkPalette ==
  /\ NoHook
  /\ arg \in {[fn |-> "generateDarkPalette", colors |-> p] : p \in Palettes}
  /\ ret = NoCall

CallGenerateDarkPalette == Returns(generateDarkPalette(arg.colors))

SpecDarkPalette == InitDarkPalette /\ [][CallGenerateDarkPalette]_vars

(***************************************************************************)
(* analyzeColorPalette and the panel's overall status on their own         *)
(***************************************************************************)
\* palettes of up to MaxAnalyzed colours out of: the default background and
\* surface, a red and a green that protanopia brings together, two greys on
\* either side of the default threshold, and a blue
MaxAnalyzed == 3
AnalyzedHexes ==
  {<<15, 10, 15, 10, 15, 9>>, <<15, 15, 15, 15, 15, 15>>,
   <<14, 5, 3, 9, 3, 5>>, <<2, 14, 7, 13, 3, 2>>,
   <<8, 0, 8, 0, 8, 0>>, <<8, 13, 8, 13, 8, 13>>, <<1, 14, 8, 8, 14, 5>>}
AnalyzedLists ==
  UNION {{[i \in 1..n |-> [name |-> ColorNames[i], hex |-> hs[i]]] :
            hs \in [1..n -> AnalyzedHexes]} : n \in 0..MaxAnalyzed}
AnalyzedPalettes ==
  {[i \in 1..Len(cs) |->
      Entry(i, "accent", cs[i].name, cs[i].hex, hexToHsl(cs[i].hex).h,
            hexToHsl(cs[i].hex).s, hexToHsl(cs[i].hex).l)] : cs \in AnalyzedLists}
\* the default threshold, with 0 and a wide one beside it
Thresholds == {0, 5, 20}

InitAnalysis ==
  /\ NoHook
  /\ arg \in [fn : {"analyzeColorPalette"}, colors : AnalyzedLists,
              visionType : VisionTypes, threshold : Thresholds]
             \cup [fn : {"ColorBlindnessPanel"}, colors : AnalyzedPalettes]
  /\ ret = NoCall

CallAnalyzeColorPalette ==
  /\ arg.fn = "analyzeColorPalette"
  /\ Returns(analyzeColorPalette(arg.colors, arg.visionType, arg.threshold))

\* the panel renders its overall status for the palette of the hook
RenderOverallStatus ==
  /\ arg.fn = "ColorBlindnessPanel"
  /\ Returns(OverallStatus(arg.colors))

SpecAnalysis ==
  InitAnalysis /\ [][CallAnalyzeColorPalette \/ RenderOverallStatus]_vars

(***************************************************************************)
(* Properties                                                              *)
(***************************************************************************)
\* getContrastResults() computed from the palette of the current mode
ResultsOfCurrentColors == getContrastResults(currentColors)

\* getContrastResults() of the hook: the callback reads colors
Results == getContrastResults(colors)
ResultAt(k) == Results[k]
ResultIndexes == 1..Len(Results)

\* C1: getContrastResults returns a result for every unordered pair of
\* distinct palette entries (README: "contrast checks for every color pair",
\* "on all color combinations").
C1_EveryPairChecked ==
  \A i \in 1..Len(colors) : \A j \in 1..Len(colors) :
    i < j =>
      \E k \in ResultIndexes :
        \/ ResultAt(k).color1 = colors[i] /\ ResultAt(k).color2 = colors[j]
        \/ ResultAt(k).color1 = colors[j] /\ ResultAt(k).color2 = colors[i]

\* C2: every ContrastResult of getContrastResults carries the WCAG verdicts of
\* its own ratio: aa iff ratio >= 4.5, aaLarge iff ratio >= 3, aaa iff
\* ratio >= 7, aaaLarge iff ratio >= 4.5; so aaa implies aa, aa implies
\* aaLarge, and aaaLarge equals aa.  The ratio is that of the two hex values.
C2_WcagThresholds ==
  \A k \in ResultIndexes :
    LET r == ResultAt(k)
    IN  /\ r.ratio = calculateContrast(r.color1.hex, r.color2.hex)
        /\ r.aa <=> (r.ratio >= 4500)
        /\ r.aaLarge <=> (r.ratio >= 3000)
        /\ r.aaa <=> (r.ratio >= 7000)
        /\ r.aaaLarge <=> (r.ratio >= 4500)
        /\ r.aaa => r.aa
        /\ r.aa => r.aaLarge
        /\ r.aaaLarge = r.aa

\* C2 witness: after an edit of the palette the results hold a pair that
\* passes AAA, one that passes AA but not AAA, one that passes only AA Large
\* and one that fails all
C2_Witness ==
  /\ pc = "ready"
  /\ lastOp = "updateColor"
  /\ \E k \in ResultIndexes : ResultAt(k).aaa
  /\ \E k \in ResultIndexes : ResultAt(k).aa /\ ~ResultAt(k).aaa
  /\ \E k \in ResultIndexes : ResultAt(k).aaLarge /\ ~ResultAt(k).aa
  /\ \E k \in ResultIndexes : ~ResultAt(k).aaLarge

\* the hue the claim gives the i-th derived scale of a harmony
C3_DerivedHues(config) ==
  LET h == config.baseHue
      sp == config.spacing
      complement == (h + 180) % 360
  IN  CASE config.type = "complementary" -> <<complement>>
        [] config.type = "analogous" -> <<(h + sp) % 360, (h - sp + 360) % 360>>
        [] config.type = "triadic" -> <<(h + 120) % 360, (h + 240) % 360>>
        [] config.type = "split-complementary" ->
             <<(complement + sp) % 360, (complement - sp + 360) % 360>>

\* C3: generateHarmony returns the scale "primary" at config.baseHue first,
\* then one scale at the complement for "complementary", two at
\* baseHue +/- spacing for "analogous", two at baseHue + 120 and + 240 for
\* "triadic", two at complement +/- spacing for "split-complementary" (all
\* mod 360); every derived hue lies in 0..359 and every scale has
\* config.saturation.
C3_HarmonyHues ==
  ret.fn = "generateHarmony" =>
    LET config == arg.config
        scales == ret.value.scales
        hues == C3_DerivedHues(config)
    IN  /\ ret.value.config = config
        /\ Len(scales) = 1 + Len(hues)
        /\ scales[1].name = "primary"
        /\ scales[1].baseHue = config.baseHue
        /\ \A i \in 1..Len(hues) :
             /\ scales[i + 1].baseHue = hues[i]
             /\ scales[i + 1].baseHue \in 0..359
             /\ scales[i + 1].name # "primary"
        /\ \A i \in 1..Len(scales) : scales[i].saturation = config.saturation

\* C3 witness: an analogous harmony whose second hue wraps below 0, at the
\* top of the hue slider
C3_Witness ==
  /\ ret.fn = "generateHarmony"
  /\ arg.config.type = "analogous"
  /\ arg.config.baseHue = 360
  /\ arg.config.spacing = 60
  /\ ret.value.scales[3].baseHue = 300

\* ratio^e for an integer e of either sign
C4_Power(ratio, e) ==
  IF e >= 0 THEN FracPow(ratio, e) ELSE FracDiv(<<1, 1>>, FracPow(ratio, -e))

C4_Names == <<"xs", "sm", "base", "lg", "xl", "2xl", "3xl", "4xl", "5xl">>

\* C4: generateTypographySteps(baseSize, ratio) yields the nine steps xs, sm,
\* base, lg, xl, 2xl, 3xl, 4xl, 5xl in that order, the k-th (k = 0..8) of
\* size baseSize * ratio^(k-2); "base" has size baseSize; for baseSize > 0
\* and ratio > 1 the sizes strictly increase.
C4_ModularScale ==
  ret.fn = "generateTypographySteps" =>
    LET steps == ret.value
        b == arg.baseSize
        ratio == arg.ratio
    IN  /\ Len(steps) = 9
        /\ \A k \in 0..8 :
             /\ steps[k + 1].name = C4_Names[k + 1]
             /\ steps[k + 1].size = FracMul(<<b, 1>>, C4_Power(ratio, k - 2))
        /\ steps[3].name = "base" /\ steps[3].size = <<b, 1>>
        /\ (b > 0 /\ FracLess(<<1, 1>>, ratio)) =>
             \A k \in 1..8 : FracLess(steps[k].size, steps[k + 1].size)

\* C4 witness: the largest base size at the Major Second ratio 9/8, whose
\* 5xl step is 24 * (9/8)^6
C4_Witness ==
  /\ ret.fn = "generateTypographySteps"
  /\ arg.baseSize = 24
  /\ arg.ratio = <<9, 8>>
  /\ ret.value[9].size = <<1594323, 32768>>
  /\ FracLess(ret.value[1].size, ret.value[2].size)

\* a mount that has settled: the effects ran, the queued updates are
\* rendered, and no operation has followed
Settled == pc = "ready" /\ opsSinceMount = 0

WrittenBySession(entry) ==
  /\ entry # None
  /\ IsJson(entry[1])
  /\ \A f \in DOMAIN JsonParse(entry[1]) : JsonParse(entry[1])[f] # None

\* C6: a hook that mounts with no URL hash on an entry holding a state S that
\* a previous session wrote has, once the mount has settled, S as its colors,
\* typography (steps regenerated), colorScalesConfig, colorScalesEnabled and
\* fullSystemEnabled, and localStorage holds S again; the save effect that
\* ran with the defaults did not get them loaded, StrictMode or not.
C6_PersistsAcrossReload ==
  (Settled /\ IsEmptyText(mountHash) /\ WrittenBySession(mountStorage)) =>
    LET S == JsonParse(mountStorage[1])
    IN  /\ colors = S.colors[1]
        /\ typography = [S.typography[1] EXCEPT
                           !.steps = generateTypographySteps(S.typography[1].baseSize,
                                                             S.typography[1].scaleRatio)]
        /\ colorScalesConfig = S.colorScalesConfig[1]
        /\ colorScalesEnabled = S.colorScalesEnabled[1]
        /\ fullSystemEnabled = S.fullSystemEnabled[1]
        /\ localStorage = Some(JsonStringify(S))

\* C6 witness: under StrictMode the page was reloaded after an edit of the
\* typography, and the new instance settled on the edited state
C6_Witness ==
  /\ Settled
  /\ strictMode
  /\ lastOp = "reload"
  /\ IsEmptyText(mountHash)
  /\ WrittenBySession(mountStorage)
  /\ typography.baseSize = 24
  /\ colors # DEFAULT_COLORS
  /\ colorScalesEnabled

\* the state a mount takes from a loaded object: each property the object
\* carries, the default for each it lacks
C7_TakenFrom(obj) ==
  StateObject(
    IF obj.colors # None THEN obj.colors[1] ELSE DEFAULT_COLORS,
    IF obj.typography # None
      THEN [obj.typography[1] EXCEPT
              !.steps = generateTypographySteps(obj.typography[1].baseSize,
                                                obj.typography[1].scaleRatio)]
      ELSE DEFAULT_TYPOGRAPHY,
    IF obj.colorScalesConfig # None THEN obj.colorScalesConfig[1]
      ELSE DEFAULT_SCALES_CONFIG,
    IF obj.colorScalesEnabled # None THEN obj.colorScalesEnabled[1] ELSE FALSE,
    IF obj.fullSystemEnabled # None THEN obj.fullSystemEnabled[1] ELSE FALSE)

C7_Defaults ==
  StateObject(DEFAULT_COLORS, DEFAULT_TYPOGRAPHY, DEFAULT_SCALES_CONFIG, FALSE, FALSE)

\* C7: on mount, a hash that decodes to a valid state gives the hook its
\* state, sets loadedFromUrl, is cleared from the URL, and localStorage is
\* not read; with no hash, or one that does not decode, loadedFromUrl stays
\* false and the state is taken from the localStorage entry when there is
\* one (an entry that does not parse gives nothing), the defaults otherwise.
C7_LoadPriority ==
  Settled =>
    LET urlState == getStateFromUrl(mountHash)
    IN  IF urlState # None
          THEN /\ ShareableState = C7_TakenFrom(urlState[1])
               /\ loadedFromUrl
               /\ IsEmptyText(urlHash)
               /\ ~storageRead
          ELSE /\ ~loadedFromUrl
               /\ storageRead
               /\ urlHash = mountHash
               /\ IF mountStorage # None /\ IsJson(mountStorage[1])
                    THEN ShareableState = C7_TakenFrom(JsonParse(mountStorage[1]))
                    ELSE ShareableState = C7_Defaults

\* C7 witness: under StrictMode the hook mounted on a valid hash while
\* localStorage held a session's entry, and settled on the hash's palette
C7_Witness ==
  /\ Settled
  /\ strictMode
  /\ getStateFromUrl(mountHash) # None
  /\ WrittenBySession(mountStorage)
  /\ loadedFromUrl
  /\ Len(colors) = 1
  /\ ~colorScalesEnabled

\* C8: after reset() colors is the Studio Default preset with ids 1 to 7,
\* typography is 16 px at ratio 1.25 in Space Grotesk and Inter with the
\* steps of 16 and 1.25, colorScalesConfig is {complementary, 250, 80, 30},
\* and colorScalesEnabled and fullSystemEnabled are false.
C8_ResetRestoresDefaults ==
  (pc = "ready" /\ lastOp = "reset") =>
    /\ Len(colors) = 7
    /\ \A i \in 1..7 :
         /\ colors[i].id = i
         /\ [colors[i] EXCEPT !.id = 0] = COLOR_PRESETS.default[i]
    /\ typography = [baseSize |-> 16, scaleRatio |-> <<5, 4>>,
                     headingFont |-> "Space Grotesk", bodyFont |-> "Inter",
                     steps |-> generateTypographySteps(16, <<5, 4>>)]
    /\ colorScalesConfig = [type |-> "complementary", baseHue |-> 250,
                            saturation |-> 80, spacing |-> 30]
    /\ colorScalesEnabled = FALSE
    /\ fullSystemEnabled = FALSE

\* C8 witness: reset() was the first operation of a hook that had loaded a
\* session with another palette, another scale and both switches on
C8_Witness ==
  /\ pc = "ready"
  /\ lastOp = "reset"
  /\ opsSinceMount = 1
  /\ IsEmptyText(mountHash)
  /\ mountStorage = Some(JsonStringify(SessionState))
  /\ colors = DEFAULT_COLORS

C9_SystemNames ==
  {"brand", "accent", "neutral", "error", "warning", "success", "info"}

\* C9: colorScales is non-null exactly when colorScalesEnabled, and is then
\* generateHarmony(colorScalesConfig); fullColorSystem is non-null exactly
\* when fullSystemEnabled, and is then the seven scales brand, accent,
\* neutral, error, warning, success, info with brand at (baseHue, saturation)
\* and accent at ((baseHue + 180) mod 360, saturation).
C9_DerivedScales ==
  /\ (colorScales # None) <=> (colorScalesEnabled = TRUE)
  /\ colorScalesEnabled => colorScales[1] = generateHarmony(colorScalesConfig)
  /\ (fullColorSystem # None) <=> (fullSystemEnabled = TRUE)
  /\ fullSystemEnabled =>
       LET system == fullColorSystem[1]
       IN  /\ DOMAIN system = C9_SystemNames
           /\ \A n \in C9_SystemNames : system[n].name = n
           /\ system.brand.baseHue = colorScalesConfig.baseHue
           /\ system.brand.saturation = colorScalesConfig.saturation
           /\ system.accent.baseHue = (colorScalesConfig.baseHue + 180) % 360
           /\ system.accent.saturation = colorScalesConfig.saturation

\* C9 witness: with both switches on, the base hue was moved to the top of
\* the slider, and the accent scale sits at hue 180
C9_Witness ==
  /\ pc = "ready"
  /\ lastOp = "updateColorScalesConfig"
  /\ colorScalesEnabled
  /\ fullSystemEnabled
  /\ colorScalesConfig.baseHue = 360
  /\ fullColorSystem[1].accent.baseHue = 180
  /\ colorScales[1].scales[1].baseHue = 360

\* C10: autoAssignRoles never uses the same extracted colour for two roles:
\* for every list of extracted colours with pairwise distinct hex values, no
\* colour of the list is the source of more than one of the roles assigned
\* among background, surface, text, textMuted, primary, secondary, accent.
C10_AssignedRoles == {r \in ColorRoles : Len(ret.value[r]) > 0}
C10_NoColorUsedTwice ==
  ret.fn = "autoAssignRoles" =>
    \A r1, r2 \in C10_AssignedRoles :
      r1 # r2 => ret.value[r1][1].src # ret.value[r2][1].src

\* the lightness class of a palette that has a background: its first
\* background has a lightness below 30
C11_FirstBackground(cs) == FilterRoles(cs, {"background"})[1]
C11_HasBackground(cs) == Len(FilterRoles(cs, {"background"})) > 0
C11_Lightness(cs, role, l) ==
  \A i \in 1..Len(cs) : cs[i].role = role => cs[i].hsl.l = l

\* C11: generateDarkPalette inverts the lightness class of the palette: when
\* the first background has lightness >= 30 the result has lightness 8 for
\* background, 12 for surface, 95 for text and 65 for textMuted; when it has
\* lightness < 30 the result has 98, 100, 10 and 40. Hence, for a palette
\* with a background, isPaletteDark of the result is the negation of
\* isPaletteDark of the palette.
C11_DarkInverts ==
  (ret.fn = "generateDarkPalette" /\ C11_HasBackground(arg.colors)) =>
    LET l == C11_FirstBackground(arg.colors).hsl.l
        out == ret.value
    IN  /\ l >= 30 =>
             /\ C11_Lightness(out, "background", 8)
             /\ C11_Lightness(out, "surface", 12)
             /\ C11_Lightness(out, "text", 95)
             /\ C11_Lightness(out, "textMuted", 65)
        /\ l < 30 =>
             /\ C11_Lightness(out, "background", 98)
             /\ C11_Lightness(out, "surface", 100)
             /\ C11_Lightness(out, "text", 10)
             /\ C11_Lightness(out, "textMuted", 40)
        /\ C11_HasBackground(out)
        /\ (C11_FirstBackground(out).hsl.l < 30) <=> ~(l < 30)
        /\ isPaletteDark(out) <=> ~isPaletteDark(arg.colors)

\* C11 witness: a palette of a text and a background of lightness 29 has
\* come back as a light palette
C11_Witness ==
  /\ ret.fn = "generateDarkPalette"
  /\ Len(arg.colors) = 2
  /\ arg.colors[1].role = "text"
  /\ arg.colors[2].role = "background"
  /\ arg.colors[2].hsl.l = 29
  /\ ret.value[1].hsl.l = 10
  /\ ret.value[2].hsl.l = 98

C18_Brand == {"primary", "secondary", "accent"}

\* C18: generateDarkPalette keeps the length and order of the palette and
\* the id, role, name and hue of every entry; the saturation of an entry
\* does not grow, its lightness lies in 0..100 (brand roles: in 25..85 from
\* light to dark, in 35..55 from dark to light), and its hex is hslToHex of
\* its new hsl.
C18_DarkInRange ==
  ret.fn = "generateDarkPalette" =>
    LET p == arg.colors
        out == ret.value
        toLight == C11_HasBackground(p) /\ C11_FirstBackground(p).hsl.l < 30
    IN  /\ Len(out) = Len(p)
        /\ \A i \in 1..Len(p) :
             /\ out[i].id = p[i].id
             /\ out[i].role = p[i].role
             /\ out[i].name = p[i].name
             /\ out[i].hsl.h = p[i].hsl.h
             /\ out[i].hsl.s <= p[i].hsl.s
             /\ out[i].hsl.l \in 0..100
             /\ (out[i].role \in C18_Brand /\ ~toLight) => out[i].hsl.l \in 25..85
             /\ (out[i].role \in C18_Brand /\ toLight) => out[i].hsl.l \in 35..55
             /\ out[i].hex = hslToHex(out[i].hsl.h, out[i].hsl.s, out[i].hsl.l)

\* C18 witness: a saturated accent of lightness 71 beside a background of
\* lightness 30 has come back with lightness 56 and saturation 80
C18_Witness ==
  /\ ret.fn = "generateDarkPalette"
  /\ Len(arg.colors) = 2
  /\ arg.colors[1].role = "background"
  /\ arg.colors[1].hsl.l = 30
  /\ arg.colors[2].role = "accent"
  /\ arg.colors[2].hsl = [h |-> 30, s |-> 100, l |-> 71]
  /\ ret.value[2].hsl = [h |-> 30, s |-> 80, l |-> 56]

\* the pairs i < j of a list of n colours
C12_Pairs(n) == {p \in (1..n) \X (1..n) : p[1] < p[2]}

\* the pairs of cs that are too close under the deficiency
C12_Close(cs, visionType, threshold) ==
  {p \in C12_Pairs(Len(cs)) :
     ~areColorsDistinguishable(cs[p[1]].hex, cs[p[2]].hex, visionType, threshold)}

\* C12: analyzeColorPalette(colors, type, threshold) lists every pair i < j
\* exactly once as an issue exactly when the colorDifference of its simulated
\* colours is below the threshold, which is exactly when
\* areColorsDistinguishable is false; isAccessible holds exactly when no
\* issue is listed; the panel reports 'Palette is Accessible' exactly when
\* the palette is accessible for deuteranopia, protanopia and tritanopia.
C12_PairsAnalyzed ==
  /\ ret.fn = "analyzeColorPalette" =>
       LET cs == arg.colors
           issues == ret.value.issues
           close == C12_Close(cs, arg.visionType, arg.threshold)
       IN  /\ Len(issues) = Cardinality(close)
           /\ \A p \in C12_Pairs(Len(cs)) :
                /\ (p \in close) <=>
                     BelowThreshold(
                       colorDifference(
                         simulateColorBlindness(cs[p[1]].hex, arg.visionType),
                         simulateColorBlindness(cs[p[2]].hex, arg.visionType)),
                       arg.threshold)
                /\ Cardinality({k \in 1..Len(issues) :
                                  /\ issues[k].color1.name = cs[p[1]].name
                                  /\ issues[k].color2.name = cs[p[2]].name})
                     = IF p \in close THEN 1 ELSE 0
           /\ ret.value.isAccessible <=> close = {}
  /\ ret.fn = "ColorBlindnessPanel" =>
       (ret.value = "Palette is Accessible") <=>
         \A type \in {"deuteranopia", "protanopia", "tritanopia"} :
           C12_Close(arg.colors, type, 5) = {}

\* C12 witness: for protanopia at the default threshold the red and the
\* green of a three-colour list are the one issue, while normal vision tells
\* all three apart
C12_Witness ==
  /\ ret.fn = "analyzeColorPalette"
  /\ arg.visionType = "protanopia"
  /\ arg.threshold = 5
  /\ Len(arg.colors) = 3
  /\ arg.colors[1].hex = <<14, 5, 3, 9, 3, 5>>
  /\ arg.colors[2].hex = <<2, 14, 7, 13, 3, 2>>
  /\ arg.colors[3].hex = <<8, 0, 8, 0, 8, 0>>
  /\ Len(ret.value.issues) = 1
  /\ ret.value.issues[1].color2.name = arg.colors[2].name
  /\ ~ret.value.isAccessible
  /\ C12_Close(arg.colors, "normal", 5) = {}

\* C12 witness: the panel reports a palette of three colours accessible
C12_WitnessPanel ==
  /\ ret.fn = "ColorBlindnessPanel"
  /\ Len(arg.colors) = 3
  /\ ret.value = "Palette is Accessible"


\* C14: after updateColor(id, u) where u carries a hex and no hsl, the hsl of
\* the edited entry is hexToHsl of its new hex; where u carries an hsl and no
\* hex, its hex is hslToHex of its new hsl; for every value the editor can
\* pass, the empty string and incomplete hex strings among them.
C14_HexHslInSync ==
  (lastOp = "updateColor" /\ opsSinceMount > 0) =>
    LET id == lastArgs.id[1]
        u == lastArgs.updates[1]
    IN  \A i \in 1..Len(colors) :
          colors[i].id = id =>
            /\ (u.hex # None /\ u.hsl = None) =>
                 colors[i].hsl = hexToHsl(colors[i].hex)
            /\ (u.hsl # None /\ u.hex = None) =>
                 colors[i].hex = hslToHex(colors[i].hsl.h, colors[i].hsl.s,
                                          colors[i].hsl.l)

\* the entries of cs whose id is not the given one, in their order
C15_Without(cs, id) == SelectSeq(cs, LAMBDA c : c.id # id)

\* a step of the named operation
C15_StepOf(name) == lastOp' = name /\ nOps' = nOps + 1

C15_Step ==
  LET n == Len(colors)
      args == lastArgs'
  IN  /\ C15_StepOf("updateColor") =>
           /\ Len(colors') = n
           /\ \A i \in 1..n :
                /\ colors'[i].id = colors[i].id
                /\ colors[i].id # args.id[1] => colors'[i] = colors[i]
           /\ (\A i \in 1..n : colors[i].id # args.id[1]) => colors' = colors
      /\ C15_StepOf("addColor") =>
           /\ Len(colors') = n + 1
           /\ SubSeq(colors', 1, n) = colors
           /\ colors'[n + 1].role = IF args.role = None THEN "accent" ELSE args.role[1]
           /\ colors'[n + 1].name = ColorNames[n + 1]
      /\ C15_StepOf("removeColor") =>
           colors' = C15_Without(colors, args.id[1])
      /\ (\E name \in {"updateColor", "addColor", "removeColor"} : C15_StepOf(name)) =>
           UNCHANGED <<typography, colorScalesConfig, colorScalesEnabled,
                       fullSystemEnabled, colorMode>>

\* C15: updateColor(id, u) changes only entries whose id is id and keeps the
\* length, the order and every id of the palette (an id that matches no entry
\* leaves the palette unchanged); addColor(role) appends exactly one entry,
\* with that role ("accent" by default) and the name 'Color n+1' for a
\* palette of n entries, and leaves the others unchanged; removeColor(id)
\* deletes exactly the entries whose id is id; none of the three changes
\* typography, colorScalesConfig, colorScalesEnabled, fullSystemEnabled or
\* colorMode.
C15_PaletteEditsFrame == [][C15_Step]_vars

\* C15 witness: a colour was added with the role "surface" as 'Color 8', then
\* the entry with id 3 was removed
C15_Witness ==
  /\ lastOp = "removeColor"
  /\ lastArgs.id = Some(3)
  /\ opsSinceMount = 2
  /\ Len(colors) = 7
  /\ colors[7].role = "surface"
  /\ colors[7].name = "Color 8"
  /\ \A i \in 1..7 : colors[i].id # 3


\* the entries of the light palette with one of the roles, in palette order
C13_WithRoles(roles) == SelectSeq(colors, LAMBDA c : c.role \in roles)

C16_StepOf(names) == lastOp' \in names /\ nModeOps' = nModeOps + 1

\* the dark palette exposed and the current palette, for the given state
C16_Computed(cs, auto, dark) == ComputedDarkColorsMemo(cs, auto, dark)
C16_Current(mode, cs, auto, dark) ==
  CurrentColorsMemo(mode, cs, C16_Computed(cs, auto, dark))

C16_Exposed(cs, auto, dark) ==
  auto => C16_Computed(cs, auto, dark) = Some(generateDarkPalette(cs))

C16_Step ==
  \A cs \in {colors}, dark \in {darkColors}, mode \in {colorMode},
     cs2 \in {colors'}, auto2 \in {autoSyncDark'}, dark2 \in {darkColors'},
     mode2 \in {colorMode'} :
    /\ C16_Exposed(cs2, auto2, dark2)
    /\ (autoSyncDark /\ C16_StepOf({"regenerateDarkPalette", "updateDarkColor"})) =>
         /\ C16_Computed(cs2, auto2, dark2) = C16_Computed(cs, TRUE, dark)
         /\ C16_Current(mode2, cs2, auto2, dark2) = C16_Current(mode, cs, TRUE, dark)
    /\ C16_StepOf({"updateDarkColor"}) => cs2 = cs

\* C16: while autoSyncDark is true the dark palette the hook exposes as
\* darkColors is generateDarkPalette(colors), and neither
\* regenerateDarkPalette nor updateDarkColor changes it or currentColors;
\* updateDarkColor never changes the light palette.
C16_AutoSyncDark ==
  /\ C16_Exposed(colors, autoSyncDark, darkColors)
  /\ [][C16_Step]_vars

\* C16 witness: with autoSyncDark on, updateDarkColor has edited the stored
\* dark palette, which now differs from the exposed one
C16_Witness ==
  /\ autoSyncDark
  /\ lastOp = "updateDarkColor"
  /\ lastArgs.id = Some(1)
  /\ darkColors # None
  /\ darkColors # Some(generateDarkPalette(colors))
  /\ computedDarkColors = Some(generateDarkPalette(colors))

\* C17: when colorMode is "dark" currentColors is the dark palette exposed as
\* darkColors, and when colorMode is "light" it is colors, after any
\* sequence of toggleColorMode, setColorMode, toggleAutoSyncDark,
\* regenerateDarkPalette and palette edits.
C17_CurrentFollowsMode ==
  /\ colorMode = "dark" => computedDarkColors = Some(currentColors)
  /\ colorMode = "light" => currentColors = colors


C19_Black == <<0, 0, 0, 0, 0, 0>>

\* simulateColorBlindness(hex, type) is well-formed
C19_WellFormed(hex, type) ==
  \A simulated \in {simulateColorBlindness(hex, type)} :
    IF type = "normal" THEN simulated = hex
    ELSE /\ Len(simulated) = 6
         /\ \A k \in 1..6 : simulated[k] \in 0..15
         /\ Len(hex) # 6 => simulated = C19_Black

C20_PreviewFollowsToggle ==
  panelMounted =>
    /\ simulatePreview => visionSimulation = selectedVision
    /\ ~simulatePreview => visionSimulation = "normal"

====
